---- MODULE Spec2Model ----
(***************************************************************************)
(* Battle simulation engine of sims/selfplay (EnhancedBattleEngine, which  *)
(* layers abilities, items, weather and terrain over BattleEngine): the    *)
(* battle loop, the turn orchestrator and the calculators they call.       *)
(*                                                                         *)
(* Combatants are Python objects shared by reference between the caller's  *)
(* roster lists and the battle state, so they live in a heap (mon) and the *)
(* sides hold object identities.  Floats are exact fractions <<num, den>>  *)
(* where the source compares or truncates values whose exact and rounded   *)
(* forms agree, and IEEE doubles (53-bit mantissa, round to nearest even   *)
(* after every operation) in the damage product; a random.random() draw is *)
(* a number of ten-thousandths in Draws.                                   *)
(***************************************************************************)
EXTENDS Integers, Sequences, FiniteSets, TLC

Players == {"p1", "p2"}

Other(player) == IF player = "p1" THEN "p2" ELSE "p1"

Max(a, b) == IF a >= b THEN a ELSE b

Min(a, b) == IF a <= b THEN a ELSE b

Abs(a) == IF a >= 0 THEN a ELSE 0 - a

(***************************************************************************)
(* Exact fractions standing for the floats of the source.                  *)
(***************************************************************************)
\* (the one-element sets below only fix the order of evaluation: each value is
\* computed once and then used)
RECURSIVE GCD(_, _)
GCD(a, b) == IF b = 0 THEN a ELSE CHOOSE g \in {GCD(b, r) : r \in {a % b}} : TRUE

\* n / d in lowest terms
Frac(n, d) ==
  CHOOSE f \in { IF g = 0 THEN <<0, 1>> ELSE <<nn \div g, dd \div g>> :
                   nn \in {n}, dd \in {d}, g \in {GCD(n, d)} } : TRUE

FMul(x, y) == CHOOSE f \in {Frac(a[1] * b[1], a[2] * b[2]) : a \in {x}, b \in {y}} : TRUE

FDiv(x, y) == CHOOSE f \in {Frac(a[1] * b[2], a[2] * b[1]) : a \in {x}, b \in {y}} : TRUE

FAdd(x, y) ==
  CHOOSE f \in {Frac(a[1] * b[2] + b[1] * a[2], a[2] * b[2]) : a \in {x}, b \in {y}} : TRUE

FLess(x, y) == x[1] * y[2] < y[1] * x[2]

\* int(x) rounding up instead of truncating
FCeil(x) == (x[1] + x[2] - 1) \div x[2]

\* int(x) of a non-negative float
FFloor(x) == x[1] \div x[2]

(***************************************************************************)
(* Python floats: IEEE doubles m * 2^e with a 53-bit mantissa m, every     *)
(* operation rounded to nearest, ties to even.  A mantissa does not fit a  *)
(* machine integer of the checker, so naturals are sequences of limbs,     *)
(* least significant first, no leading zero limb, << >> for 0.             *)
(***************************************************************************)
\* limbs are the numbers below 2^LimbBits
LimbBits == 14

Limb == 2 ^ LimbBits

\* bits of the mantissa of a double
MantissaBits == 53

RECURSIVE BNorm(_)
BNorm(x) == IF x = << >> THEN x
            ELSE IF x[Len(x)] = 0 THEN BNorm(SubSeq(x, 1, Len(x) - 1)) ELSE x

RECURSIVE BFromInt(_)
BFromInt(n) == IF n = 0 THEN << >> ELSE <<n % Limb>> \o BFromInt(n \div Limb)

RECURSIVE BToInt(_)
BToInt(x) == IF x = << >> THEN 0 ELSE x[1] + Limb * BToInt(Tail(x))

BLow(x) == IF x = << >> THEN 0 ELSE x[1]

BRest(x) == IF x = << >> THEN x ELSE Tail(x)

\* x + y + c
RECURSIVE BAddC(_, _, _)
BAddC(x, y, c) ==
  IF x = << >> /\ y = << >> THEN (IF c = 0 THEN << >> ELSE <<c>>)
  ELSE LET sum == BLow(x) + BLow(y) + c
       IN <<sum % Limb>> \o BAddC(BRest(x), BRest(y), sum \div Limb)

BAdd(x, y) == BAddC(x, y, 0)

RECURSIVE BSubB(_, _, _)
BSubB(x, y, b) ==
  IF x = << >> THEN << >>
  ELSE LET d == x[1] - BLow(y) - b
       IN IF d < 0 THEN <<d + Limb>> \o BSubB(Tail(x), BRest(y), 1)
          ELSE <<d>> \o BSubB(Tail(x), BRest(y), 0)

\* x - y, for x >= y
BSub(x, y) == BNorm(BSubB(x, y, 0))

RECURSIVE BLess(_, _)
BLess(x, y) ==
  IF Len(x) # Len(y) THEN Len(x) < Len(y)
  ELSE IF x = << >> THEN FALSE
  ELSE IF x[Len(x)] # y[Len(y)] THEN x[Len(x)] < y[Len(y)]
  ELSE BLess(SubSeq(x, 1, Len(x) - 1), SubSeq(y, 1, Len(y) - 1))

RECURSIVE BMulSmallC(_, _, _)
BMulSmallC(x, k, c) ==
  IF x = << >> THEN (IF c = 0 THEN << >> ELSE <<c>>)
  ELSE LET prod == x[1] * k + c
       IN <<prod % Limb>> \o BMulSmallC(Tail(x), k, prod \div Limb)

\* x * k, k one limb
BMulSmall(x, k) == IF k = 0 THEN << >> ELSE BMulSmallC(x, k, 0)

RECURSIVE BMul(_, _)
BMul(x, y) ==
  IF x = << >> \/ y = << >> THEN << >>
  ELSE BAdd(BMulSmall(x, y[1]),
            LET hi == BMul(x, Tail(y)) IN IF hi = << >> THEN hi ELSE <<0>> \o hi)

\* the limbs of x divided by k from the top down, r the remainder carried in
RECURSIVE BDivSmallR(_, _, _)
BDivSmallR(x, k, r) ==
  IF x = << >> THEN << >>
  ELSE LET n == Len(x)
           cur == r * Limb + x[n]
       IN BDivSmallR(SubSeq(x, 1, n - 1), k, cur % k) \o <<cur \div k>>

\* x \div k, k one limb
BDivSmall(x, k) == BNorm(BDivSmallR(x, k, 0))

\* x * 2^k
BShl(x, k) == IF x = << >> THEN x
              ELSE [i \in 1..(k \div LimbBits) |-> 0] \o BMulSmall(x, 2 ^ (k % LimbBits))

\* x \div 2^k
BShr(x, k) ==
  IF k \div LimbBits >= Len(x) THEN << >>
  ELSE BDivSmall(SubSeq(x, k \div LimbBits + 1, Len(x)), 2 ^ (k % LimbBits))

RECURSIVE IntBits(_)
IntBits(n) == IF n = 0 THEN 0 ELSE 1 + IntBits(n \div 2)

\* the number of bits of x
BBits(x) == IF x = << >> THEN 0 ELSE LimbBits * (Len(x) - 1) + IntBits(x[Len(x)])

BOdd(x) == x # << >> /\ x[1] % 2 = 1

\* 0.0
FlZero == [m |-> << >>, e |-> 0]

FlRoundOf(n, e) ==
  LET bits == BBits(n)
  IN IF n = << >> THEN FlZero
     ELSE IF bits <= MantissaBits
     THEN [m |-> BShl(n, MantissaBits - bits), e |-> e - (MantissaBits - bits)]
     ELSE LET k == bits - MantissaBits
              withGuard == BShr(n, k - 1)
              sticky == BShl(withGuard, k - 1) # n
              q == BShr(withGuard, 1)
              up == BOdd(withGuard) /\ (sticky \/ BOdd(q))
              r == IF up THEN BAdd(q, <<1>>) ELSE q
          IN IF BBits(r) > MantissaBits THEN [m |-> BShr(r, 1), e |-> e + k + 1]
             ELSE [m |-> r, e |-> e + k]

\* the double nearest to n * 2^e, ties to even
FlRound(n, e) == CHOOSE f \in {FlRoundOf(v, e) : v \in {n}} : TRUE

\* float(n), n >= 0
FlFromInt(n) == FlRound(BFromInt(n), 0)

\* a * b; a finite double times 0.0 is 0.0
FlMul(a, b) ==
  IF b.m = << >> THEN FlZero
  ELSE CHOOSE f \in {FlRound(BMul(x.m, y.m), x.e + y.e) : x \in {a}, y \in {b}} : TRUE

FlAddOf(a, b) ==
  IF a.m = << >> THEN b ELSE IF b.m = << >> THEN a
  ELSE LET lo == IF a.e < b.e THEN a.e ELSE b.e
       IN FlRound(BAdd(BShl(a.m, a.e - lo), BShl(b.m, b.e - lo)), lo)

\* a + b, neither negative
FlAdd(a, b) == CHOOSE f \in {FlAddOf(x, y) : x \in {a}, y \in {b}} : TRUE

\* one more quotient bit of s.r / d, s.q the bits so far
DivStep(s, d) ==
  LET r2 == BAdd(s.r, s.r)
      ge == ~BLess(r2, d)
  IN [q |-> BAddC(s.q, s.q, IF ge THEN 1 ELSE 0), r |-> IF ge THEN BSub(r2, d) ELSE r2]

\* n more quotient bits; with nothing left to divide they are all 0
RECURSIVE DivBits(_, _, _)
DivBits(s, d, n) ==
  IF n = 0 THEN s
  ELSE IF s.r = << >> THEN [q |-> BShl(s.q, n), r |-> s.r]
  ELSE IF n = 1 THEN CHOOSE res \in {DivStep(t, d) : t \in {s}} : TRUE
  ELSE CHOOSE res \in {DivBits(t, d, n - n \div 2) : t \in {DivBits(s, d, n \div 2)}} : TRUE

\* the quotient of the mantissas to three bits more than a mantissa holds, then one
\* bit for a remainder left over, rounded
FlDivOf(a, b) ==
  IF a.m = << >> THEN FlZero
  ELSE LET ge == ~BLess(a.m, b.m)
           res == DivBits([q |-> IF ge THEN <<1>> ELSE << >>,
                           r |-> IF ge THEN BSub(a.m, b.m) ELSE a.m], b.m, MantissaBits + 3)
           n == BAddC(res.q, res.q, IF res.r = << >> THEN 0 ELSE 1)
       IN FlRound(n, a.e - b.e - (MantissaBits + 4))

\* a / b, b > 0
FlDiv(a, b) == CHOOSE f \in {FlDivOf(x, y) : x \in {a}, y \in {b}} : TRUE

\* int(x), x >= 0
FlInt(x) == IF x.m = << >> THEN 0
            ELSE IF x.e >= 0 THEN BToInt(BShl(x.m, x.e))
            ELSE BToInt(BShr(x.m, 0 - x.e))

\* the double of a quotient of two ints or of a decimal literal: the double nearest
\* to the fraction
FlOfFraction(f) ==
  IF f[2] = 1 THEN FlFromInt(f[1]) ELSE FlDiv(FlFromInt(f[1]), FlFromInt(f[2]))

\* the fractions the engine's stage multipliers, level factor, boosts and rolls take
\* on combatants of level 100
KnownFractions ==
  {Frac(2 + b, 2) : b \in 0..6} \cup {Frac(2, 2 + b) : b \in 1..6}
  \cup {Frac(210, 250), Frac(85, 100), <<3, 2>>, <<13, 10>>, <<1, 4>>, <<0, 1>>}

\* their doubles, computed once
KnownDoubles == [f \in KnownFractions |-> FlOfFraction(f)]

FlOf(f) == IF f \in KnownFractions THEN KnownDoubles[f] ELSE FlOfFraction(f)

\* random.random() draws, in ten-thousandths of the unit interval
Draws == {0, 2499, 2500, 9999}

\* random.uniform(0.85, 1.0), in hundredths
Rolls == {85, 100}

\* draw < p, p a fraction of 1
DrawBelow(d, p) == d * p[2] < p[1] * 10000

(***************************************************************************)
(* Static rule tables.  The engine loads them from JSON files; the entries *)
(* below are the rows the modelled rosters use.                            *)
(***************************************************************************)
NoEffects == << >>

MoveDex ==
  [ tackle      |-> [name |-> "Tackle", move_id |-> "tackle", type |-> "Normal",
                     category |-> "Physical", power |-> 40, accuracy |-> 100,
                     priority |-> 0, effects |-> NoEffects],
    quickattack |-> [name |-> "Quick Attack", move_id |-> "quickattack", type |-> "Normal",
                     category |-> "Physical", power |-> 40, accuracy |-> 100,
                     priority |-> 1, effects |-> NoEffects],
    acidspray   |-> [name |-> "Acid Spray", move_id |-> "acidspray", type |-> "Poison",
                     category |-> "Special", power |-> 40, accuracy |-> 100,
                     priority |-> 0,
                     effects |-> [secondary |-> [chance |-> 100, effect |-> "spdef_drop"]]],
    thunderwave |-> [name |-> "Thunder Wave", move_id |-> "thunderwave", type |-> "Electric",
                     category |-> "Status", power |-> 0, accuracy |-> 90,
                     priority |-> 0, effects |-> [status |-> "paralysis"]],
    toxic       |-> [name |-> "Toxic", move_id |-> "toxic", type |-> "Poison",
                     category |-> "Status", power |-> 0, accuracy |-> 90,
                     priority |-> 0, effects |-> [status |-> "badly_poisoned"]],
    recover     |-> [name |-> "Recover", move_id |-> "recover", type |-> "Normal",
                     category |-> "Status", power |-> 0, accuracy |-> 100,
                     priority |-> 0, effects |-> [heal |-> <<1, 2>>]],
    earthquake  |-> [name |-> "Earthquake", move_id |-> "earthquake", type |-> "Ground",
                     category |-> "Physical", power |-> 100, accuracy |-> 100,
                     priority |-> 0, effects |-> NoEffects],
    flamethrower |-> [name |-> "Flamethrower", move_id |-> "flamethrower", type |-> "Fire",
                      category |-> "Special", power |-> 90, accuracy |-> 100,
                      priority |-> 0,
                      effects |-> [secondary |-> [chance |-> 10, effect |-> "burn"]]],
    willowisp   |-> [name |-> "Will-O-Wisp", move_id |-> "willowisp", type |-> "Fire",
                     category |-> "Status", power |-> 0, accuracy |-> 85,
                     priority |-> 0, effects |-> [status |-> "burn"]],
    thunder     |-> [name |-> "Thunder", move_id |-> "thunder", type |-> "Electric",
                     category |-> "Special", power |-> 110, accuracy |-> 70,
                     priority |-> 0, effects |-> NoEffects],
    hurricane   |-> [name |-> "Hurricane", move_id |-> "hurricane", type |-> "Flying",
                     category |-> "Special", power |-> 110, accuracy |-> 70,
                     priority |-> 0, effects |-> NoEffects],
    spikes      |-> [name |-> "Spikes", move_id |-> "spikes", type |-> "Ground",
                     category |-> "Status", power |-> 0, accuracy |-> 100,
                     priority |-> 0, effects |-> [hazard |-> "spikes"]],
    reflect     |-> [name |-> "Reflect", move_id |-> "reflect", type |-> "Psychic",
                     category |-> "Status", power |-> 0, accuracy |-> 100,
                     priority |-> 0, effects |-> [screen |-> "reflect"]],
    lightscreen |-> [name |-> "Light Screen", move_id |-> "lightscreen", type |-> "Psychic",
                     category |-> "Status", power |-> 0, accuracy |-> 100,
                     priority |-> 0, effects |-> [screen |-> "lightscreen"]] ]

\* type_effectiveness.json: attacking type -> defending types by class
TypeChart ==
  [ Normal |-> [super_effective |-> {}, not_very_effective |-> {"Rock", "Steel"},
                no_effect |-> {"Ghost"}],
    Fire   |-> [super_effective |-> {"Grass", "Ice", "Bug", "Steel"},
                not_very_effective |-> {"Fire", "Water", "Rock", "Dragon"},
                no_effect |-> {}],
    Poison |-> [super_effective |-> {"Grass", "Fairy"},
                not_very_effective |-> {"Poison", "Ground", "Rock", "Ghost"},
                no_effect |-> {"Steel"}],
    Ground |-> [super_effective |-> {"Fire", "Electric", "Poison", "Rock", "Steel"},
                not_very_effective |-> {"Grass", "Bug"},
                no_effect |-> {"Flying"}] ]

\* abilities.json, keyed by the identifier get_ability_data derives
AbilityData ==
  [ intimidate |-> [trigger |-> "on_switch_in", effect |-> "lowers_attack"] ]

\* items.json, keyed by the identifier get_item_data derives
ItemData ==
  [ leftovers |-> [trigger |-> "end_of_turn", effect |-> "heal_per_turn",
                   heal_percent |-> <<1, 16>>],
    life_orb  |-> [trigger |-> "on_attack", effect |-> "boost_damage",
                   damage_boost |-> <<13, 10>>] ]

\* weather.json
WeatherData ==
  [ sandstorm |-> [effects |-> [damage_per_turn |-> <<1, 16>>,
                                damage_immunity |-> {"Rock", "Ground", "Steel"}]],
    rain      |-> [effects |-> [water_boost |-> <<3, 2>>, fire_nerf |-> <<1, 2>>]] ]

\* terrain.json
TerrainData ==
  [ grassy |-> [effects |-> [heal_per_turn |-> <<1, 16>>, grass_boost |-> <<13, 10>>]] ]

Stats == {"atk", "def", "spa", "spd", "spe", "accuracy", "evasion"}

\* Pokemon.__post_init__
NoBoosts == [s \in Stats |-> 0]

Pokemon(species, hp, max_hp, spe, types, ability, item, moves, status) ==
  [ species |-> species, level |-> 100, hp |-> hp, max_hp |-> max_hp,
    atk |-> 100, def |-> 100, spa |-> 100, spd |-> 100, spe |-> spe,
    types |-> types, ability |-> ability, item |-> item, moves |-> moves,
    status |-> status, status_turns |-> 0, boosts |-> NoBoosts ]

\* the combatant objects a caller builds its rosters from
Dex ==
  [ Arcanine |-> Pokemon("Arcanine", 30, 30, 95, <<"Fire">>, "Intimidate", "",
                         <<"tackle", "thunderwave">>, "none"),
    Blissey  |-> [Pokemon("Blissey", 40, 60, 55, <<"Normal">>, "Natural Cure", "Leftovers",
                          <<"recover", "toxic">>, "none")
                    EXCEPT !.boosts = [NoBoosts EXCEPT !["atk"] = 0 - 6, !["spd"] = 0 - 6]],
    Gengar   |-> Pokemon("Gengar", 30, 30, 110, <<"Ghost", "Poison">>, "Cursed Body", "Life Orb",
                         <<"acidspray", "quickattack">>, "none"),
    Skarmory |-> Pokemon("Skarmory", 30, 30, 70, <<"Steel", "Flying">>, "Sturdy", "",
                         <<"spikes", "reflect", "lightscreen">>, "none"),
    Weezing  |-> Pokemon("Weezing", 5, 60, 95, <<"Poison">>, "Levitate", "",
                         <<"tackle">>, "burn") ]

\* <<team1, team2>> as passed to simulate_battle
Matchups ==
  { <<r1, r2>> : r1 \in {<<"Arcanine">>, <<"Weezing">>}, r2 \in {<<"Arcanine">>, <<"Weezing">>} }
  \cup { << <<"Gengar", "Arcanine">>, <<"Gengar", "Arcanine">> >>,
         << <<"Gengar", "Arcanine">>, <<"Blissey", "Weezing">> >>,
         << <<"Blissey", "Weezing">>, <<"Gengar", "Arcanine">> >>,
         << <<"Weezing">>, <<"Gengar", "Arcanine">> >>,
         << <<"Skarmory">>, <<"Skarmory">> >> }

\* weather and terrain a battle starts from: simulate_battle sets both to None
\* and no move of the engine changes them
Fields == { [weather |-> "none", terrain |-> "none"] }

\* largest max_turns explored
MaxTurns == 2

\* the max_turns arguments explored
TurnCaps == {0, 1, MaxTurns}

(***************************************************************************)
(* Calculators                                                             *)
(***************************************************************************)
get_stat_multiplier(boost_level) ==
  IF boost_level >= 0 THEN Frac(2 + boost_level, 2)
  ELSE Frac(2, 2 + Abs(boost_level))

RECURSIVE TypeProduct(_, _, _)
TypeProduct(type_data, target_types, i) ==
  IF i > Len(target_types) THEN <<1, 1>>
  ELSE LET t == target_types[i]
           f == IF t \in type_data.super_effective THEN <<2, 1>>
                ELSE IF t \in type_data.not_very_effective THEN <<1, 2>>
                ELSE IF t \in type_data.no_effect THEN <<0, 1>>
                ELSE <<1, 1>>
       IN FMul(f, TypeProduct(type_data, target_types, i + 1))

calculate_type_effectiveness(move_type, target_types) ==
  IF move_type \notin DOMAIN TypeChart THEN <<1, 1>>
  ELSE TypeProduct(TypeChart[move_type], target_types, 1)

InSeq(x, sq) == \E i \in 1..Len(sq) : sq[i] = x

\* str.lower().replace(" ", "_") on the ability names of the rosters
get_ability_data(ability_name) ==
  LET ability_id == CASE ability_name = "Intimidate" -> "intimidate"
                      [] ability_name = "Natural Cure" -> "natural_cure"
                      [] ability_name = "Cursed Body" -> "cursed_body"
                      [] ability_name = "Levitate" -> "levitate"
                      [] OTHER -> ability_name
  IN IF ability_id \in DOMAIN AbilityData THEN <<AbilityData[ability_id]>> ELSE << >>

\* str.lower().replace(" ", "_").replace("-", "_") on the item names of the rosters
get_item_data(item_name) ==
  LET item_id == CASE item_name = "Leftovers" -> "leftovers"
                   [] item_name = "Life Orb" -> "life_orb"
                   [] OTHER -> item_name
  IN IF item_id \in DOMAIN ItemData THEN <<ItemData[item_id]>> ELSE << >>

\* x * modifiers[1] * ... * modifiers[n], left to right
RECURSIVE FlProduct(_, _)
FlProduct(x, modifiers) ==
  IF modifiers = << >> THEN x
  ELSE FlProduct(FlMul(x, FlOf(modifiers[1])), Tail(modifiers))

Fractions == Nat \X Nat

\* the operands of the damage expression
DamageOperands ==
  [level_factor : Fractions, critical_hit : BOOLEAN, attack : Nat, attack_stage : Int,
   defense : Nat, defense_stage : Int, base_power : Nat, modifiers : Seq(Fractions)]

\* int(((level_factor * attack_stat * base_power / defense_stat) + 2) * stab * effectiveness
\*     * weather_boost * terrain_boost * item_boost * random_factor) in doubles
float_damage ==
  [x \in DamageOperands |->
     LET attack_stat == FlMul(FlFromInt(x.attack), FlOf(get_stat_multiplier(x.attack_stage)))
         defense_stat == FlMul(FlFromInt(x.defense), FlOf(get_stat_multiplier(x.defense_stage)))
         level_factor == IF x.critical_hit THEN FlMul(FlOf(x.level_factor), FlFromInt(2))
                         ELSE FlOf(x.level_factor)
         base == FlAdd(FlDiv(FlMul(FlMul(level_factor, attack_stat), FlFromInt(x.base_power)),
                             defense_stat), FlFromInt(2))
     IN FlInt(FlProduct(base, x.modifiers))]

\* critical_hit and random_factor are the two draws of the source, made by the caller
calculate_damage(attacker, defender, move, fld, critical_hit, random_factor) ==
  IF move.category = "Status" THEN [damage |-> 0, critical_hit |-> FALSE, effectiveness |-> <<1, 1>>]
  ELSE
    LET physical == move.category = "Physical"
        attack_stat == IF physical
                       THEN FMul(<<attacker.atk, 1>>, get_stat_multiplier(attacker.boosts["atk"]))
                       ELSE FMul(<<attacker.spa, 1>>, get_stat_multiplier(attacker.boosts["spa"]))
        defense_stat == IF physical
                        THEN FMul(<<defender.def, 1>>, get_stat_multiplier(defender.boosts["def"]))
                        ELSE FMul(<<defender.spd, 1>>, get_stat_multiplier(defender.boosts["spd"]))
        level_factor0 == Frac(2 * attacker.level + 10, 250)
        level_factor == IF critical_hit THEN FMul(level_factor0, <<2, 1>>) ELSE level_factor0
        effectiveness == calculate_type_effectiveness(move.type, defender.types)
        stab == IF InSeq(move.type, attacker.types) THEN <<3, 2>> ELSE <<1, 1>>
        weather == fld.weather
        weather_boost ==
          IF weather \in DOMAIN WeatherData
          THEN IF move.type = "Fire" /\ weather = "sun"
               THEN WeatherData[weather].effects.fire_boost
               ELSE IF move.type = "Water" /\ weather = "rain"
               THEN WeatherData[weather].effects.water_boost
               ELSE <<1, 1>>
          ELSE <<1, 1>>
        terrain == fld.terrain
        terrain_boost ==
          IF terrain \in DOMAIN TerrainData
          THEN IF move.type = "Electric" /\ terrain = "electric"
               THEN TerrainData[terrain].effects.electric_boost
               ELSE IF move.type = "Grass" /\ terrain = "grassy"
               THEN TerrainData[terrain].effects.grass_boost
               ELSE IF move.type = "Fairy" /\ terrain = "misty"
               THEN TerrainData[terrain].effects.fairy_boost
               ELSE IF move.type = "Psychic" /\ terrain = "psychic"
               THEN TerrainData[terrain].effects.psychic_boost
               ELSE <<1, 1>>
          ELSE <<1, 1>>
        item_data == get_item_data(attacker.item)
        item_boost == IF item_data # << >> /\ item_data[1].effect = "boost_damage"
                      THEN item_data[1].damage_boost ELSE <<1, 1>>
        base == FAdd(FDiv(FMul(FMul(level_factor, attack_stat), <<move.power, 1>>),
                          defense_stat), <<2, 1>>)
        modifier == FMul(FMul(FMul(stab, effectiveness), FMul(weather_boost, terrain_boost)),
                         FMul(item_boost, Frac(random_factor, 100)))
        exact == FMul(base, modifier)
        \* int() of the float product.  The product is off the exact one by less than
        \* 2^-48 of its value, and an exact product that is no integer is at least
        \* 1 / exact[2] away from one, so truncation can tell the two apart only when
        \* the exact product is an integer: there the doubles decide.
    IN CHOOSE res \in
         {[damage |-> Max(1, IF attacker.status = "burn" /\ physical THEN damage \div 2
                             ELSE damage),
           critical_hit |-> critical_hit, effectiveness |-> effectiveness] :
            damage \in {IF exact[2] = 1
                        THEN float_damage[[level_factor |-> level_factor0,
                                           critical_hit |-> critical_hit,
                                           attack |-> IF physical THEN attacker.atk
                                                      ELSE attacker.spa,
                                           attack_stage |-> IF physical
                                                            THEN attacker.boosts["atk"]
                                                            ELSE attacker.boosts["spa"],
                                           defense |-> IF physical THEN defender.def
                                                       ELSE defender.spd,
                                           defense_stage |-> IF physical
                                                             THEN defender.boosts["def"]
                                                             ELSE defender.boosts["spd"],
                                           base_power |-> move.power,
                                           modifiers |-> <<stab, effectiveness, weather_boost,
                                                           terrain_boost, item_boost,
                                                           Frac(random_factor, 100)>>]]
                        ELSE FFloor(exact)}} : TRUE

\* the accuracy, in percent, that check_accuracy compares its draw with
effective_accuracy(move, attacker, defender, fld) ==
  LET a0 == FMul(FMul(<<move.accuracy, 1>>, get_stat_multiplier(attacker.boosts["accuracy"])),
                 get_stat_multiplier(0 - defender.boosts["evasion"]))
      a1 == IF fld.weather \in DOMAIN WeatherData /\ fld.weather = "rain"
               /\ move.name \in {"Thunder", "Hurricane"}
            THEN <<100, 1>> ELSE a0
      a2 == IF fld.terrain = "misty" /\ move.type = "Dragon" THEN FMul(a1, <<1, 2>>) ELSE a1
      a3 == IF attacker.status = "paralysis" THEN FMul(a2, <<4, 5>>) ELSE a2
  IN IF FLess(a3, <<1, 1>>) THEN <<1, 1>>
     ELSE IF FLess(<<100, 1>>, a3) THEN <<100, 1>> ELSE a3

\* draw is the random.random() of the last line; it is not made when accuracy is 100
check_accuracy(move, attacker, defender, fld, draw) ==
  IF move.accuracy = 100 THEN TRUE
  ELSE DrawBelow(draw, FMul(effective_accuracy(move, attacker, defender, fld), <<1, 100>>))

\* TRUE when the combatant may act; draw is the random.random() of the branch taken
check_status_effects(pokemon, draw) ==
  IF pokemon.status = "sleep" THEN DrawBelow(draw, <<33, 100>>)
  ELSE IF pokemon.status = "freeze" THEN DrawBelow(draw, <<20, 100>>)
  ELSE IF pokemon.status = "paralysis" THEN DrawBelow(draw, <<25, 100>>)
  ELSE IF pokemon.status = "confusion" THEN ~DrawBelow(draw, <<33, 100>>)
  ELSE TRUE

\* apply_status_damage subtracting the damage with no floor at 0
apply_status_damage_unclamped(pokemon) ==
  LET turns == IF pokemon.status = "badly_poisoned"
               THEN pokemon.status_turns + 1 ELSE pokemon.status_turns
      damage == IF pokemon.status \in {"burn", "poison"} THEN pokemon.max_hp \div 8
                ELSE IF pokemon.status = "badly_poisoned" THEN (pokemon.max_hp * turns) \div 8
                ELSE 0
  IN [pokemon |-> [pokemon EXCEPT !.status_turns = turns, !.hp = pokemon.hp - damage],
      damage |-> damage]

\* apply_status_damage computing the badly-poisoned damage before counting the tick
apply_status_damage_stale(pokemon) ==
  LET turns == IF pokemon.status = "badly_poisoned"
               THEN pokemon.status_turns + 1 ELSE pokemon.status_turns
      damage == IF pokemon.status \in {"burn", "poison"} THEN pokemon.max_hp \div 8
                ELSE IF pokemon.status = "badly_poisoned"
                     THEN (pokemon.max_hp * pokemon.status_turns) \div 8
                ELSE 0
  IN [pokemon |-> [pokemon EXCEPT !.status_turns = turns, !.hp = Max(0, pokemon.hp - damage)],
      damage |-> damage]

\* the combatant after the tick, and the damage returned
apply_status_damage(pokemon) ==
  LET turns == IF pokemon.status = "badly_poisoned"
               THEN pokemon.status_turns + 1 ELSE pokemon.status_turns
      damage == IF pokemon.status \in {"burn", "poison"} THEN pokemon.max_hp \div 8
                ELSE IF pokemon.status = "badly_poisoned" THEN (pokemon.max_hp * turns) \div 8
                ELSE 0
  IN [pokemon |-> [pokemon EXCEPT !.status_turns = turns, !.hp = Max(0, pokemon.hp - damage)],
      damage |-> damage]

(***************************************************************************)
(* Battle state                                                            *)
(***************************************************************************)
VARIABLES
  mon,          \* the Pokemon objects, by identity
  team1,        \* the caller's roster lists (object identities)
  team2,
  active,       \* battle_state[player]["active"]
  bench,        \* battle_state[player]["bench"]
  side,         \* battle_state[player]["side"]
  field,        \* battle_state["field"]
  turn,         \* battle_state["turn"]
  max_turns,    \* argument of simulate_battle
  pc,           \* position in simulate_battle / simulate_turn
  actions,      \* p1_action, p2_action
  action_order, \* simulate_turn's action_order, as the players in order
  step,         \* index of the for loop over action_order
  turn_log,     \* simulate_turn's turn_log
  calls,        \* number of simulate_turn calls made by the battle loop
  winner,       \* result["winner"], "" until simulate_battle returns
  call,         \* a direct call of one of the engine's calculators: method and arguments
  ret           \* <<value returned by that call>>, << >> until it returns

vars == <<mon, team1, team2, active, bench, side, field, turn, max_turns, pc,
          actions, action_order, step, turn_log, calls, winner, call, ret>>

\* details of an entry: the "target" and "damage" keys of the end-of-turn and
\* contact-damage entries are kept, the details of every other entry are left out
NoDetails == [target |-> "", damage |-> 0]

\* accuracy_roll, in ten-thousandths like the draws, critical_hit and effectiveness
\* take the defaults of the dataclass
BattleLogEntry(t, player, action, result, damage) ==
  [turn |-> t, player |-> player, action |-> action, result |-> result, damage |-> damage,
   accuracy_roll |-> 0, critical_hit |-> FALSE, effectiveness |-> <<1, 1>>,
   details |-> NoDetails]

\* an entry whose damage field keeps its default 0 and whose details carry the
\* target and the amount
DetailedLogEntry(t, player, action, result, target, damage) ==
  [BattleLogEntry(t, player, action, result, 0)
     EXCEPT !.details = [target |-> target, damage |-> damage]]

\* the entry of a move that went through execute_move's accuracy check and
\* damage calculation
MoveLogEntry(t, player, result, damage, accuracy_roll, critical_hit, effectiveness) ==
  [BattleLogEntry(t, player, "move", result, damage)
     EXCEPT !.accuracy_roll = accuracy_roll, !.critical_hit = critical_hit,
            !.effectiveness = effectiveness]

NoAction == [type |-> "none", move |-> "", pokemon |-> 0, priority |-> 0]

MoveAction(move_id) ==
  [type |-> "move", move |-> move_id, pokemon |-> 0,
   priority |-> IF move_id \in DOMAIN MoveDex THEN MoveDex[move_id].priority ELSE 0]

\* bench positions count from 1 here, from 0 in the source
SwitchAction(i) == [type |-> "switch", move |-> "", pokemon |-> i, priority |-> 0]

SideInit ==
  [hazards |-> [spikes |-> 0, toxicSpikes |-> 0, stealthRock |-> FALSE, stickyWeb |-> FALSE],
   screens |-> [reflect |-> FALSE, lightScreen |-> FALSE, auroraVeil |-> FALSE],
   sideConditions |-> [tailwind |-> FALSE, trickRoom |-> FALSE, gravity |-> FALSE,
                       wonderRoom |-> FALSE, magicRoom |-> FALSE]]

FieldInit(f) ==
  [weather |-> f.weather, terrain |-> f.terrain,
   hazards |-> SideInit.hazards, screens |-> SideInit.screens,
   sideConditions |-> SideInit.sideConditions]

\* no calculator is being called directly
NoCall == [method |-> "none"]

Ids(from, n) == [i \in 1..n |-> from + i]

Init ==
  \E mu \in Matchups, f \in Fields, mt \in TurnCaps :
   LET r1 == mu[1]
       r2 == mu[2]
   IN
    /\ mon = [i \in 1..(Len(r1) + Len(r2)) |->
                IF i <= Len(r1) THEN Dex[r1[i]] ELSE Dex[r2[i - Len(r1)]]]
    /\ team1 = Ids(0, Len(r1))
    /\ team2 = Ids(Len(r1), Len(r2))
    /\ active = [p \in Players |-> IF p = "p1" THEN 1 ELSE Len(r1) + 1]
    /\ bench = [p \in Players |-> IF p = "p1" THEN Tail(Ids(0, Len(r1)))
                                  ELSE Tail(Ids(Len(r1), Len(r2)))]
    /\ side = [p \in Players |-> SideInit]
    /\ field = FieldInit(f)
    /\ turn = 0
    /\ max_turns = mt
    /\ pc = "loop"
    /\ actions = [p \in Players |-> NoAction]
    /\ action_order = << >>
    /\ step = 0
    /\ turn_log = << >>
    /\ calls = 0
    /\ winner = ""
    /\ call = NoCall
    /\ ret = << >>

(***************************************************************************)
(* Battle loop helpers                                                     *)
(***************************************************************************)
RECURSIVE CountAlive(_, _, _)
CountAlive(m, ids, i) ==
  IF i > Len(ids) THEN 0
  ELSE (IF m[ids[i]].hp > 0 THEN 1 ELSE 0) + CountAlive(m, ids, i + 1)

count_remaining_pokemon(m, act, bnch, player) ==
  (IF m[act[player]].hp > 0 THEN 1 ELSE 0) + CountAlive(m, bnch[player], 1)

\* check_battle_end asking for both sides to be out
check_battle_end_both(m, act, bnch) ==
  /\ count_remaining_pokemon(m, act, bnch, "p1") = 0
  /\ count_remaining_pokemon(m, act, bnch, "p2") = 0

check_battle_end(m, act, bnch) ==
  \/ count_remaining_pokemon(m, act, bnch, "p1") = 0
  \/ count_remaining_pokemon(m, act, bnch, "p2") = 0

determine_winner(m, act, bnch) ==
  LET p1_remaining == count_remaining_pokemon(m, act, bnch, "p1")
      p2_remaining == count_remaining_pokemon(m, act, bnch, "p2")
  IN IF p1_remaining > p2_remaining THEN "p1"
     ELSE IF p2_remaining > p1_remaining THEN "p2"
     ELSE "tie"

\* the actions get_random_action can return for a player
get_random_action(m, act, bnch, player) ==
  LET a == m[act[player]]
      healthy_bench == {i \in 1..Len(bnch[player]) : m[bnch[player][i]].hp > 0}
  IN { MoveAction(a.moves[i]) :
         i \in {j \in 1..Len(a.moves) : \E d \in Draws : DrawBelow(d, <<7, 10>>)} }
     \cup
     (IF (\E d \in Draws : ~DrawBelow(d, <<7, 10>>)) \/ Len(a.moves) = 0
      THEN IF healthy_bench # {} THEN {SwitchAction(i) : i \in healthy_bench}
           ELSE {MoveAction("struggle")}
      ELSE {})

\* DetermineOrder with the speed comparison made before the priority comparison
DetermineOrder_SpeedFirst(m, act, p1_action, p2_action) ==
  LET p1_speed == FMul(<<m[act["p1"]].spe, 1>>, get_stat_multiplier(m[act["p1"]].boosts["spe"]))
      p2_speed == FMul(<<m[act["p2"]].spe, 1>>, get_stat_multiplier(m[act["p2"]].boosts["spe"]))
  IN IF FLess(p2_speed, p1_speed) THEN {<<"p1", "p2">>}
     ELSE IF FLess(p1_speed, p2_speed) THEN {<<"p2", "p1">>}
     ELSE IF p1_action.priority > p2_action.priority THEN {<<"p1", "p2">>}
     ELSE IF p2_action.priority > p1_action.priority THEN {<<"p2", "p1">>}
     ELSE {<<"p1", "p2">>, <<"p2", "p1">>}

\* DetermineOrder comparing the raw speed stats, the speed stages left out
DetermineOrder_RawSpeed(m, act, p1_action, p2_action) ==
  IF p1_action.priority > p2_action.priority THEN {<<"p1", "p2">>}
  ELSE IF p2_action.priority > p1_action.priority THEN {<<"p2", "p1">>}
  ELSE IF m[act["p1"]].spe > m[act["p2"]].spe THEN {<<"p1", "p2">>}
  ELSE IF m[act["p2"]].spe > m[act["p1"]].spe THEN {<<"p2", "p1">>}
  ELSE {<<"p1", "p2">>, <<"p2", "p1">>}

\* the orders simulate_turn can settle on (both, on a speed tie)
DetermineOrder(m, act, p1_action, p2_action) ==
  LET p1_priority == p1_action.priority
      p2_priority == p2_action.priority
      p1_speed == FMul(<<m[act["p1"]].spe, 1>>, get_stat_multiplier(m[act["p1"]].boosts["spe"]))
      p2_speed == FMul(<<m[act["p2"]].spe, 1>>, get_stat_multiplier(m[act["p2"]].boosts["spe"]))
  IN IF p1_priority > p2_priority THEN {<<"p1", "p2">>}
     ELSE IF p2_priority > p1_priority THEN {<<"p2", "p1">>}
     ELSE IF FLess(p2_speed, p1_speed) THEN {<<"p1", "p2">>}
     ELSE IF FLess(p1_speed, p2_speed) THEN {<<"p2", "p1">>}
     ELSE {<<"p1", "p2">>, <<"p2", "p1">>}

(***************************************************************************)
(* Effects: each operator returns the objects, field and sides it leaves   *)
(* and the log entries it returns.                                         *)
(***************************************************************************)
\* a one-stage drop that leaves the stage unclamped
lower_stage_unclamped(stage) == stage - 1

\* max(-6, boosts[stat] - 1)
lower_stage(stage) == Max(0 - 6, stage - 1)

Boosted(pokemon, stat, value) ==
  [pokemon EXCEPT !.boosts = [pokemon.boosts EXCEPT ![stat] = value]]

\* pokemon is the identity of the object passed in; == on Pokemon compares field values
apply_ability_effects(m, act, id, trigger, t) ==
  LET ability_data == get_ability_data(m[id].ability)
  IN IF ability_data = << >> \/ ability_data[1].trigger # trigger
     THEN [mon |-> m, log |-> << >>]
     ELSE IF ability_data[1].effect = "lowers_attack" /\ trigger = "on_switch_in"
     THEN LET opponent == act[IF m[id] = m[act["p1"]] THEN "p2" ELSE "p1"]
          IN [mon |-> [m EXCEPT ![opponent] =
                         Boosted(@, "atk", lower_stage(m[opponent].boosts["atk"]))],
              log |-> <<BattleLogEntry(t, "system", "ability", "ability_triggered", 0)>>]
     ELSE IF ability_data[1].effect = "heal_on_switch" /\ trigger = "on_switch_out"
     THEN [mon |-> [m EXCEPT ![id].hp =
                      Min(m[id].max_hp, m[id].hp + (m[id].max_hp * 33) \div 100)],
           log |-> <<BattleLogEntry(t, "system", "ability", "ability_triggered", 0)>>]
     ELSE IF ability_data[1].effect = "contact_damage" /\ trigger = "on_contact"
     THEN LET attacker == act[IF m[id] = m[act["p1"]] THEN "p2" ELSE "p1"]
              damage == m[attacker].max_hp \div 8
          IN [mon |-> [m EXCEPT ![attacker].hp = Max(0, m[attacker].hp - damage)],
              log |-> <<DetailedLogEntry(t, "system", "ability", "ability_triggered",
                                        m[attacker].species, damage)>>]
     ELSE [mon |-> m, log |-> << >>]

apply_item_effects(m, id, trigger, t) ==
  LET item_data == get_item_data(m[id].item)
  IN IF item_data = << >> \/ item_data[1].trigger # trigger
     THEN [mon |-> m, log |-> << >>]
     ELSE IF item_data[1].effect = "heal_per_turn" /\ trigger = "end_of_turn"
     THEN LET heal_amount == FFloor(FMul(<<m[id].max_hp, 1>>, item_data[1].heal_percent))
          IN [mon |-> [m EXCEPT ![id].hp = Min(m[id].max_hp, m[id].hp + heal_amount)],
              log |-> <<BattleLogEntry(t, "system", "item", "item_triggered", 0)>>]
     ELSE IF item_data[1].effect = "survive_ohko" /\ trigger = "on_ohko" /\ m[id].hp <= 0
     THEN [mon |-> [m EXCEPT ![id].hp = 1, ![id].item = ""],
           log |-> <<BattleLogEntry(t, "system", "item", "item_triggered", 0)>>]
     ELSE [mon |-> m, log |-> << >>]

\* one pass of the loop over p1, p2 in apply_weather_effects
WeatherOn(r, act, fld, player, t) ==
  LET m == r.mon
      id == act[player]
      weather_data == WeatherData[fld.weather]
      damage == FFloor(FMul(<<m[id].max_hp, 1>>, weather_data.effects.damage_per_turn))
  IN IF m[id].hp > 0 /\ ~(\E i \in 1..Len(m[id].types) :
                            m[id].types[i] \in weather_data.effects.damage_immunity)
     THEN [mon |-> [m EXCEPT ![id].hp = Max(0, m[id].hp - damage)],
           log |-> IF damage > 0
                   THEN Append(r.log, DetailedLogEntry(t, "system", "weather", "weather_damage",
                                                  m[id].species, damage))
                   ELSE r.log]
     ELSE r

apply_weather_effects(m, act, fld, t) ==
  IF fld.weather = "none" \/ fld.weather \notin DOMAIN WeatherData
  THEN [mon |-> m, log |-> << >>]
  ELSE CHOOSE w2 \in { WeatherOn(w1, act, fld, "p2", t) :
                         w1 \in { WeatherOn([mon |-> m, log |-> << >>], act, fld, "p1", t) } } :
         TRUE

\* the terrain pass without the test hp > 0: a fainted combatant is healed too
TerrainOn_Fainted(r, act, fld, player, t) ==
  LET m == r.mon
      id == act[player]
      heal_amount == FFloor(FMul(<<m[id].max_hp, 1>>, TerrainData[fld.terrain].effects.heal_per_turn))
  IN IF m[id].hp < m[id].max_hp
        /\ ~InSeq("Flying", m[id].types) /\ m[id].ability # "Levitate"
     THEN [mon |-> [m EXCEPT ![id].hp = Min(m[id].max_hp, m[id].hp + heal_amount)],
           log |-> IF heal_amount > 0
                   THEN Append(r.log, DetailedLogEntry(t, "system", "terrain", "terrain_heal",
                                                  m[id].species, 0))
                   ELSE r.log]
     ELSE r

\* one pass of the loop over p1, p2 in apply_terrain_effects
TerrainOn(r, act, fld, player, t) ==
  LET m == r.mon
      id == act[player]
      heal_amount == FFloor(FMul(<<m[id].max_hp, 1>>, TerrainData[fld.terrain].effects.heal_per_turn))
  IN IF m[id].hp > 0 /\ m[id].hp < m[id].max_hp
        /\ ~InSeq("Flying", m[id].types) /\ m[id].ability # "Levitate"
     THEN [mon |-> [m EXCEPT ![id].hp = Min(m[id].max_hp, m[id].hp + heal_amount)],
           log |-> IF heal_amount > 0
                   THEN Append(r.log, DetailedLogEntry(t, "system", "terrain", "terrain_heal",
                                                  m[id].species, 0))
                   ELSE r.log]
     ELSE r

apply_terrain_effects(m, act, fld, t) ==
  IF fld.terrain = "none" \/ fld.terrain \notin DOMAIN TerrainData \/ fld.terrain # "grassy"
  THEN [mon |-> m, log |-> << >>]
  ELSE CHOOSE t2 \in { TerrainOn(t1, act, fld, "p2", t) :
                         t1 \in { TerrainOn([mon |-> m, log |-> << >>], act, fld, "p1", t) } } :
         TRUE

\* one pass of the status-damage loop of apply_end_of_turn_effects
StatusOn(r, act, player, t) ==
  LET id == act[player]
      res == apply_status_damage(r.mon[id])
  IN IF r.mon[id].hp > 0
     THEN [mon |-> [r.mon EXCEPT ![id] = res.pokemon],
           log |-> IF res.damage > 0
                   THEN Append(r.log, DetailedLogEntry(t, player, "status_damage", "status_damage",
                                                  "", res.damage))
                   ELSE r.log]
     ELSE r

\* the item pass made without looking at the holder's hp
ItemOn_Fainted(r, act, player, t) ==
  LET id == act[player]
      res == apply_item_effects(r.mon, id, "end_of_turn", t)
  IN [mon |-> res.mon, log |-> r.log \o res.log]

\* one pass of the item loop of apply_end_of_turn_effects
ItemOn(r, act, player, t) ==
  LET id == act[player]
      res == apply_item_effects(r.mon, id, "end_of_turn", t)
  IN IF r.mon[id].hp > 0 THEN [mon |-> res.mon, log |-> r.log \o res.log] ELSE r

\* r followed by what a later stage (weather, terrain) did to r.mon
Then(r, stage) == [mon |-> stage.mon, log |-> r.log \o stage.log]

\* the one result of apply_end_of_turn_effects, as a singleton set: status damage,
\* then weather, then terrain, then items, each stage working on the result of the last
apply_end_of_turn_effects(m, act, fld, t) ==
  { ItemOn(i1, act, "p2", t) :
      i1 \in { ItemOn(s3, act, "p1", t) :
        s3 \in { Then(s2, apply_terrain_effects(s2.mon, act, fld, t)) :
          s2 \in { Then(s1, apply_weather_effects(s1.mon, act, fld, t)) :
            s1 \in { StatusOn(s0, act, "p2", t) :
              s0 \in { StatusOn([mon |-> m, log |-> << >>], act, "p1", t) } } } } } }

\* the test that lets a status through whatever the defender already has
StatusIsNone_Always(defender) == TRUE

\* defender.status == StatusCondition.NONE, the test before every status assignment
StatusIsNone(defender) == defender.status = "none"

\* secondary_draw is the random.random() compared with the secondary chance
apply_move_effects(m, aid, did, move, fld, sd, secondary_draw, t) ==
  LET eff == move.effects
      keys == DOMAIN eff
      secondary_fires == "secondary" \in keys
                         /\ DrawBelow(secondary_draw, <<eff.secondary.chance, 100>>)
      spdef_drop == secondary_fires /\ eff.secondary.effect = "spdef_drop"
      sec_burn == secondary_fires /\ eff.secondary.effect = "burn" /\ StatusIsNone(m[did])
      m1 == IF spdef_drop
            THEN [m EXCEPT ![did] = Boosted(@, "spd", lower_stage(m[did].boosts["spd"]))]
            ELSE IF sec_burn THEN [m EXCEPT ![did].status = "burn"]
            ELSE m
      log1 == IF spdef_drop
              THEN <<BattleLogEntry(t, "system", "stat_change", "spdef_dropped", 0)>>
              ELSE IF sec_burn THEN <<BattleLogEntry(t, "system", "status", "burned", 0)>>
              ELSE << >>
      inflict == "status" \in keys /\ StatusIsNone(m1[did])
      m2 == IF inflict /\ eff.status = "badly_poisoned"
            THEN [m1 EXCEPT ![did].status = "badly_poisoned", ![did].status_turns = 0]
            ELSE IF inflict /\ eff.status = "burn" THEN [m1 EXCEPT ![did].status = "burn"]
            ELSE IF inflict /\ eff.status = "paralysis"
            THEN [m1 EXCEPT ![did].status = "paralysis"]
            ELSE m1
      fld1 == IF "hazard" \in keys /\ eff.hazard = "stealthrock"
              THEN [fld EXCEPT !.hazards.stealthRock = TRUE]
              ELSE IF "hazard" \in keys /\ eff.hazard = "spikes"
              THEN [fld EXCEPT !.hazards.spikes = @ + 1]
              ELSE fld
      sd1 == IF "screen" \in keys /\ eff.screen = "reflect"
             THEN [sd EXCEPT !["p1"].screens.reflect = TRUE]
             ELSE IF "screen" \in keys /\ eff.screen = "lightscreen"
             THEN [sd EXCEPT !["p1"].screens = ("lightscreen" :> TRUE) @@ @]
             ELSE sd
      heal_amount == IF "heal" \in keys THEN FFloor(FMul(<<m2[aid].max_hp, 1>>, eff.heal)) ELSE 0
      m3 == IF "heal" \in keys
            THEN [m2 EXCEPT ![aid].hp = Min(m2[aid].max_hp, m2[aid].hp + heal_amount)]
            ELSE m2
      log3 == IF "heal" \in keys
              THEN Append(log1, BattleLogEntry(t, m[aid].species, "heal", "healed", 0))
              ELSE log1
  IN IF keys = {} THEN [mon |-> m, field |-> fld, side |-> sd, log |-> << >>]
     ELSE [mon |-> m3, field |-> fld1, side |-> sd1, log |-> log3]

\* what execute_move can leave after a hit, for a given critical_hit, damage roll and
\* secondary draw: one outcome for each random.random() logged as accuracy_roll
MoveHits(m, aid, did, move, fld, sd, player, t, critical_hit, random_factor, secondary_draw) ==
  UNION {
    UNION {
      { [mon |-> eff.mon, field |-> eff.field, side |-> eff.side,
         log |-> <<IF move.category # "Status"
                   THEN MoveLogEntry(t, player, "hit", calc.damage, logged_roll,
                                     calc.critical_hit, calc.effectiveness)
                   ELSE BattleLogEntry(t, player, "move", "status_move", 0)>> \o eff.log] :
          logged_roll \in IF move.category # "Status" THEN Draws ELSE {0} } :
        eff \in { apply_move_effects(
                    IF move.category # "Status"
                    THEN [m EXCEPT ![did].hp = Max(0, m[did].hp - calc.damage)]
                    ELSE m,
                    aid, did, move, fld, sd, secondary_draw, t) } } :
      calc \in { calculate_damage(m[aid], m[did], move, fld, critical_hit, random_factor) } }

\* the outcomes of execute_move over its random draws
execute_move(m, act, fld, sd, player, action, t) ==
  LET aid == act[player]
      did == act[Other(player)]
  IN IF ~InSeq(action.move, m[aid].moves) \/ action.move \notin DOMAIN MoveDex
     THEN {[mon |-> m, field |-> fld, side |-> sd, log |-> << >>]}
     ELSE LET move == MoveDex[action.move]
          IN (IF \E d \in Draws : ~check_accuracy(move, m[aid], m[did], fld, d)
              THEN {[mon |-> m, field |-> fld, side |-> sd,
                     log |-> <<MoveLogEntry(t, player, "missed", 0, logged_roll,
                                            FALSE, <<1, 1>>)>>] : logged_roll \in Draws}
              ELSE {})
             \cup
             (IF \E d \in Draws : check_accuracy(move, m[aid], m[did], fld, d)
              THEN UNION { MoveHits(m, aid, did, move, fld, sd, player, t, c, r, s) :
                             c \in {DrawBelow(d, <<1, 16>>) : d \in Draws},
                             r \in Rolls, s \in Draws }
              ELSE {})

\* the bench left as it was, the combatant leaving the field not put on it
SwapIn_Keep(bnch, i, id) == bnch

\* bench[pokemon_index] = active
SwapIn(bnch, i, id) == [bnch EXCEPT ![i] = id]

\* action.pokemon is the list index of the source plus one.  An index below 0 counts
\* from the end of the bench, and one before its start raises IndexError, before
\* anything is assigned.
execute_switch(m, act, bnch, player, action, t) ==
  LET pokemon_index == action.pokemon
      slot == IF pokemon_index >= 1 THEN pokemon_index
              ELSE Len(bnch[player]) + pokemon_index
  IN IF pokemon_index <= Len(bnch[player])
     THEN IF slot >= 1
          THEN LET old == act[player]
                   bench_pokemon == bnch[player][slot]
                   act1 == [act EXCEPT ![player] = bench_pokemon]
                   bnch1 == [bnch EXCEPT ![player] = SwapIn(bnch[player], slot, old)]
                   ab == apply_ability_effects(m, act1, bench_pokemon, "on_switch_in", t)
               IN [mon |-> ab.mon, active |-> act1, bench |-> bnch1,
                   log |-> <<BattleLogEntry(t, player, "switch", "switched", 0)>> \o ab.log,
                   raises |-> ""]
          ELSE [mon |-> m, active |-> act, bench |-> bnch, log |-> << >>,
                raises |-> "IndexError"]
     ELSE [mon |-> m, active |-> act, bench |-> bnch, log |-> << >>, raises |-> ""]

(***************************************************************************)
(* simulate_battle: the loop  for turn in range(1, max_turns + 1)          *)
(***************************************************************************)
\* the loop body breaks on check_battle_end, after battle_state["turn"] = turn
BattleEndBreak ==
  /\ pc = "loop"
  /\ turn < max_turns
  /\ check_battle_end(mon, active, bench)
  /\ turn' = turn + 1
  /\ pc' = "done"
  /\ winner' = determine_winner(mon, active, bench)
  /\ UNCHANGED <<mon, team1, team2, active, bench, side, field, max_turns, call, ret, actions,
                 action_order, step, turn_log, calls>>

\* both actions are drawn and simulate_turn is entered
GetActions ==
  /\ pc = "loop"
  /\ turn < max_turns
  /\ ~check_battle_end(mon, active, bench)
  /\ turn' = turn + 1
  /\ \E a1 \in get_random_action(mon, active, bench, "p1"),
        a2 \in get_random_action(mon, active, bench, "p2") :
       actions' = [p \in Players |-> IF p = "p1" THEN a1 ELSE a2]
  /\ calls' = calls + 1
  /\ turn_log' = << >>
  /\ pc' = "order"
  /\ UNCHANGED <<mon, team1, team2, active, bench, side, field, max_turns, call, ret,
                 action_order, step, winner>>

\* TurnCap leaving the loop one turn late
TurnCap_OffByOne ==
  /\ pc = "loop"
  /\ turn > max_turns
  /\ pc' = "done"
  /\ winner' = determine_winner(mon, active, bench)
  /\ UNCHANGED <<mon, team1, team2, active, bench, side, field, turn, max_turns, call, ret, actions,
                 action_order, step, turn_log, calls>>

\* the range is exhausted: determine_winner and return
TurnCap ==
  /\ pc = "loop"
  /\ turn >= max_turns
  /\ pc' = "done"
  /\ winner' = determine_winner(mon, active, bench)
  /\ UNCHANGED <<mon, team1, team2, active, bench, side, field, turn, max_turns, call, ret, actions,
                 action_order, step, turn_log, calls>>

(***************************************************************************)
(* simulate_turn                                                           *)
(***************************************************************************)
OrderStep ==
  /\ pc = "order"
  /\ action_order' \in DetermineOrder(mon, active, actions["p1"], actions["p2"])
  /\ step' = 1
  /\ pc' = "exec"
  /\ UNCHANGED <<mon, team1, team2, active, bench, side, field, turn, max_turns, call, ret, actions,
                 turn_log, calls, winner>>

\* the for loop moves on to the next entry of action_order, or to the end of turn
Advance ==
  /\ step' = IF step < Len(action_order) THEN step + 1 ELSE 0
  /\ pc' = IF step < Len(action_order) THEN "exec" ELSE "eot"

Acting == action_order[step]

\* the loop body entered by a fainted combatant: its move is executed all the same
ExecSkipFainted_Acts ==
  /\ pc = "exec"
  /\ mon[active[Acting]].hp <= 0
  /\ \E res \in execute_move(mon, active, field, side, Acting, actions[Acting], turn) :
       /\ mon' = res.mon
       /\ field' = res.field
       /\ side' = res.side
       /\ turn_log' = turn_log \o res.log
  /\ Advance
  /\ UNCHANGED <<team1, team2, active, bench, turn, max_turns, call, ret, actions, action_order,
                 calls, winner>>

ExecSkipFainted ==
  /\ pc = "exec"
  /\ mon[active[Acting]].hp <= 0
  /\ Advance
  /\ UNCHANGED <<mon, team1, team2, active, bench, side, field, turn, max_turns, call, ret, actions,
                 action_order, turn_log, calls, winner>>

ExecPrevented ==
  /\ pc = "exec"
  /\ mon[active[Acting]].hp > 0
  /\ \E d \in Draws : ~check_status_effects(mon[active[Acting]], d)
  /\ turn_log' = Append(turn_log, BattleLogEntry(turn, Acting, "status_prevented",
                                                 "action_prevented", 0))
  /\ Advance
  /\ UNCHANGED <<mon, team1, team2, active, bench, side, field, turn, max_turns, call, ret, actions,
                 action_order, calls, winner>>

ExecMove ==
  /\ pc = "exec"
  /\ mon[active[Acting]].hp > 0
  /\ \E d \in Draws : check_status_effects(mon[active[Acting]], d)
  /\ actions[Acting].type = "move"
  /\ \E res \in execute_move(mon, active, field, side, Acting, actions[Acting], turn) :
       /\ mon' = res.mon
       /\ field' = res.field
       /\ side' = res.side
       /\ turn_log' = turn_log \o res.log
  /\ Advance
  /\ UNCHANGED <<team1, team2, active, bench, turn, max_turns, call, ret, actions, action_order,
                 calls, winner>>

ExecSwitch ==
  /\ pc = "exec"
  /\ mon[active[Acting]].hp > 0
  /\ \E d \in Draws : check_status_effects(mon[active[Acting]], d)
  /\ actions[Acting].type = "switch"
  /\ \E res \in {execute_switch(mon, active, bench, Acting, actions[Acting], turn)} :
       /\ mon' = res.mon
       /\ active' = res.active
       /\ bench' = res.bench
       /\ turn_log' = turn_log \o res.log
       \* an exception leaves simulate_turn and its callers: nothing runs after it
       /\ IF res.raises = "" THEN Advance ELSE pc' = "raised" /\ step' = step
  /\ UNCHANGED <<team1, team2, side, field, turn, max_turns, call, ret, actions, action_order,
                 calls, winner>>

EndOfTurn ==
  /\ pc = "eot"
  /\ \E res \in apply_end_of_turn_effects(mon, active, field, turn) :
       /\ mon' = res.mon
       /\ turn_log' = turn_log \o res.log
  /\ pc' = "loop"
  /\ UNCHANGED <<team1, team2, active, bench, side, field, turn, max_turns, call, ret, actions,
                 action_order, step, calls, winner>>

Next ==
  \/ BattleEndBreak
  \/ GetActions
  \/ TurnCap
  \/ OrderStep
  \/ ExecSkipFainted
  \/ ExecPrevented
  \/ ExecMove
  \/ ExecSwitch
  \/ EndOfTurn

Spec == Init /\ [][Next]_vars

(***************************************************************************)
(* Order determination on its own: simulate_turn entered with a battle     *)
(* state and two actions supplied by the caller, as the mechanics tests    *)
(* describe their positions (speed, stage, status, tailwind, trick room).  *)
(***************************************************************************)
Speeds == {50, 100}

SpeStages == {0 - 6, 0 - 2, 0 - 1, 0, 1, 2, 6}

Racer(species, spe, stage, status) ==
  [Pokemon(species, 30, 30, spe, <<"Normal">>, "", "", <<"tackle", "quickattack">>, status)
     EXCEPT !.boosts = [NoBoosts EXCEPT !["spe"] = stage]]

InitTurn ==
  \E s1 \in Speeds, s2 \in Speeds, b1 \in SpeStages, b2 \in SpeStages,
     st1 \in {"none", "paralysis"}, st2 \in {"none", "paralysis"},
     tw1 \in BOOLEAN, tw2 \in BOOLEAN, tr \in BOOLEAN,
     m1 \in {"tackle", "quickattack"}, m2 \in {"tackle", "quickattack"} :
    /\ mon = <<Racer("Rattata", s1, b1, st1), Racer("Raticate", s2, b2, st2)>>
    /\ team1 = <<1>>
    /\ team2 = <<2>>
    /\ active = [p \in Players |-> IF p = "p1" THEN 1 ELSE 2]
    /\ bench = [p \in Players |-> << >>]
    /\ side = [p \in Players |->
                 [SideInit EXCEPT !.sideConditions.tailwind = IF p = "p1" THEN tw1 ELSE tw2]]
    /\ field = [FieldInit([weather |-> "none", terrain |-> "none"])
                  EXCEPT !.sideConditions.trickRoom = tr]
    /\ turn = 1
    /\ max_turns = 1
    /\ pc = "order"
    /\ actions = [p \in Players |-> IF p = "p1" THEN MoveAction(m1) ELSE MoveAction(m2)]
    /\ action_order = << >>
    /\ step = 0
    /\ turn_log = << >>
    /\ calls = 0
    /\ winner = ""
    /\ call = NoCall
    /\ ret = << >>

OrderSpec == InitTurn /\ [][OrderStep]_vars

(***************************************************************************)
(* Direct calls of the calculators.  The caller passes Pokemon objects     *)
(* (held in mon, the call naming them by identity); the random draws a     *)
(* calculator makes are part of the call record.                           *)
(***************************************************************************)
\* combatants of the direct calls, besides those of Dex
Tyranitar ==
  [Pokemon("Tyranitar", 60, 60, 61, <<"Rock", "Dark">>, "Sand Stream", "",
           <<"earthquake">>, "none") EXCEPT !.atk = 130]

Slowbro ==
  [Pokemon("Slowbro", 60, 60, 30, <<"Water", "Psychic">>, "Regenerator", "",
           <<"tackle">>, "none") EXCEPT !.def = 95]

\* an attacker that has met Intimidate
Intimidated(p) == [p EXCEPT !.boosts["atk"] = 0 - 1]

DamageAttackers ==
  {Tyranitar, Dex["Arcanine"], Dex["Gengar"], Dex["Weezing"], Intimidated(Dex["Arcanine"])}

DamageDefenders == {Slowbro, Dex["Arcanine"], Dex["Gengar"], Dex["Blissey"]}

DamageMoves == {"earthquake", "tackle", "acidspray", "recover"}

\* status, status_turns and max_hp of the objects passed to the status calculators
Statuses == {"none", "burn", "poison", "badly_poisoned", "paralysis", "sleep"}

\* most ticks one combatant is given by successive calls
MaxTicks == 4

MaxHps == {7, 8, 30, 60}

Patient(status, status_turns, max_hp, hp) ==
  [Pokemon("Slowbro", hp, max_hp, 30, <<"Water", "Psychic">>, "Regenerator", "",
           <<"tackle">>, status) EXCEPT !.status_turns = status_turns]

\* accuracy and evasion stages of the combatants passed to check_accuracy
AccuracyStages == {0 - 6, 0 - 1, 0, 1, 6}

AccuracyMoves == {"tackle", "thunderwave", "thunder", "hurricane"}

\* weather and terrain of the battle_state passed to check_accuracy
AccuracyFields == [weather : {"none", "rain"}, terrain : {"none", "misty"}]

\* a combatant with the given status and stage in one stat
Staged(status, stat, stage) ==
  [Pokemon("Slowbro", 60, 60, 30, <<"Water", "Psychic">>, "Regenerator", "",
           <<"tackle">>, status) EXCEPT !.boosts = [NoBoosts EXCEPT ![stat] = stage]]

\* everything but mon, field, call and ret, for a call made outside any battle
NoBattle ==
  /\ team1 = << >>
  /\ team2 = << >>
  /\ active = [p \in Players |-> 0]
  /\ bench = [p \in Players |-> << >>]
  /\ side = [p \in Players |-> SideInit]
  /\ turn = 0
  /\ max_turns = 0
  /\ pc = "call"
  /\ actions = [p \in Players |-> NoAction]
  /\ action_order = << >>
  /\ step = 0
  /\ turn_log = << >>
  /\ calls = 0
  /\ winner = ""
  /\ ret = << >>

InitCalc ==
  /\ NoBattle
  /\ \/ \E a \in DamageAttackers, d \in DamageDefenders, mv \in DamageMoves,
           c \in Draws, r \in Rolls :
          /\ mon = <<a, d>>
          /\ field = FieldInit([weather |-> "none", terrain |-> "none"])
          /\ call = [method |-> "calculate_damage", attacker |-> 1, defender |-> 2,
                     move |-> mv, crit_draw |-> c, random_factor |-> r]
     \/ \E st \in Statuses, mh \in MaxHps, full \in BOOLEAN :
          /\ mon = <<Patient(st, 0, mh, IF full THEN mh ELSE 1)>>
          /\ field = FieldInit([weather |-> "none", terrain |-> "none"])
          /\ call = [method |-> "apply_status_damage", pokemon |-> 1]
     \/ \E st \in Statuses, d \in Draws :
          /\ mon = <<Patient(st, 0, 60, 60)>>
          /\ field = FieldInit([weather |-> "none", terrain |-> "none"])
          /\ call = [method |-> "check_status_effects", pokemon |-> 1, draw |-> d]
     \/ \E mv \in AccuracyMoves, acc \in AccuracyStages, eva \in AccuracyStages,
           st \in {"none", "paralysis"}, f \in AccuracyFields, d \in Draws :
          /\ mon = <<Staged(st, "accuracy", acc), Staged("none", "evasion", eva)>>
          /\ field = FieldInit(f)
          /\ call = [method |-> "check_accuracy", attacker |-> 1, defender |-> 2,
                     move |-> mv, draw |-> d]

\* what a returned call leaves unchanged besides mon
Returned ==
  /\ pc' = "return"
  /\ UNCHANGED <<team1, team2, active, bench, side, field, turn, max_turns, actions,
                 action_order, step, turn_log, calls, winner, call>>

CallCalculateDamage ==
  /\ pc = "call"
  /\ call.method = "calculate_damage"
  /\ ret' = <<calculate_damage(mon[call.attacker], mon[call.defender], MoveDex[call.move],
                               field, DrawBelow(call.crit_draw, <<1, 16>>),
                               call.random_factor)>>
  /\ mon' = mon
  /\ Returned

\* one tick; the caller may tick the same object again
CallApplyStatusDamage ==
  /\ pc \in {"call", "return"}
  /\ call.method = "apply_status_damage"
  /\ mon[call.pokemon].status_turns < MaxTicks
  /\ \E res \in {apply_status_damage(mon[call.pokemon])} :
       /\ mon' = [mon EXCEPT ![call.pokemon] = res.pokemon]
       /\ ret' = <<res.damage>>
  /\ Returned

CallCheckStatusEffects ==
  /\ pc = "call"
  /\ call.method = "check_status_effects"
  /\ ret' = <<check_status_effects(mon[call.pokemon], call.draw)>>
  /\ mon' = mon
  /\ Returned

CallCheckAccuracy ==
  /\ pc = "call"
  /\ call.method = "check_accuracy"
  /\ ret' = <<check_accuracy(MoveDex[call.move], mon[call.attacker], mon[call.defender],
                             field, call.draw)>>
  /\ mon' = mon
  /\ Returned

CalcNext ==
  \/ CallCalculateDamage
  \/ CallApplyStatusDamage
  \/ CallCheckStatusEffects
  \/ CallCheckAccuracy

CalcSpec == InitCalc /\ [][CalcNext]_vars

(***************************************************************************)
(* One turn on a position: simulate_turn entered with a battle state the   *)
(* caller built (statuses, weather, terrain, hazards, a bench) and two     *)
(* actions, run to its return.                                             *)
(***************************************************************************)
Houndoom ==
  Pokemon("Houndoom", 50, 50, 95, <<"Dark", "Fire">>, "Flash Fire", "",
          <<"thunderwave", "toxic", "willowisp", "flamethrower">>, "none")

Typhlosion ==
  Pokemon("Typhlosion", 80, 80, 100, <<"Fire">>, "Blaze", "", <<"tackle">>, "none")

\* hp of the second side's active combatant: below a burn tick (20), between a burn
\* tick and a burn tick plus a sandstorm tick (30), and full
SnorlaxHps == {15, 25, 160}

Snorlax(hp, status) ==
  [Pokemon("Snorlax", hp, 160, 30, <<"Normal">>, "Thick Fat", "Leftovers",
           <<"tackle", "thunderwave">>, status)
     EXCEPT !.status_turns = IF status = "badly_poisoned" THEN 2 ELSE 0]

\* weather and terrain of the positions
TurnFields == { [weather |-> "none", terrain |-> "none"],
                [weather |-> "sandstorm", terrain |-> "grassy"] }

\* stealth rock and two layers of spikes, or no hazard
Hazards(set) ==
  [spikes |-> IF set THEN 2 ELSE 0, toxicSpikes |-> 0, stealthRock |-> set, stickyWeb |-> FALSE]

InitPosition ==
  \E hp \in SnorlaxHps, st \in {"none", "burn", "paralysis", "badly_poisoned"},
     f \in TurnFields, hz \in BOOLEAN,
     a1 \in {MoveAction(Houndoom.moves[i]) : i \in 1..Len(Houndoom.moves)}
             \cup {SwitchAction(0), SwitchAction(1), SwitchAction(2)},
     a2 \in {MoveAction("tackle"), MoveAction("thunderwave"), SwitchAction(0), SwitchAction(1)} :
    /\ mon = <<Houndoom, Typhlosion, Snorlax(hp, st)>>
    /\ team1 = <<1, 2>>
    /\ team2 = <<3>>
    /\ active = [p \in Players |-> IF p = "p1" THEN 1 ELSE 3]
    /\ bench = [p \in Players |-> IF p = "p1" THEN <<2>> ELSE << >>]
    /\ side = [p \in Players |-> [SideInit EXCEPT !.hazards = Hazards(hz)]]
    /\ field = [FieldInit(f) EXCEPT !.hazards = Hazards(hz)]
    /\ turn = 1
    /\ max_turns = 1
    /\ pc = "order"
    /\ actions = [p \in Players |-> IF p = "p1" THEN a1 ELSE a2]
    /\ action_order = << >>
    /\ step = 0
    /\ turn_log = << >>
    /\ calls = 0
    /\ winner = ""
    /\ call = NoCall
    /\ ret = << >>

TurnNext ==
  \/ OrderStep
  \/ ExecSkipFainted
  \/ ExecPrevented
  \/ ExecMove
  \/ ExecSwitch
  \/ EndOfTurn

TurnSpec == InitPosition /\ [][TurnNext]_vars

(***************************************************************************)
(* Turn order: C3 - C6                                                     *)
(***************************************************************************)
\* the order has just been settled and nothing has executed yet
OrderSettled == pc = "exec" /\ step = 1

Priority(p) == actions[p].priority

\* stage multiplier (2 + s) / 2 for s >= 0, 2 / (2 + |s|) for s < 0, as a fraction
StageNum(s) == IF s >= 0 THEN 2 + s ELSE 2

StageDen(s) == IF s >= 0 THEN 2 ELSE 2 - s

\* speed stat times the boost multiplier of the speed stage: p's is greater than q's
BoostedFaster(p, q) ==
  LET a == mon[active[p]]
      b == mon[active[q]]
  IN a.spe * StageNum(a.boosts["spe"]) * StageDen(b.boosts["spe"])
       > b.spe * StageNum(b.boosts["spe"]) * StageDen(a.boosts["spe"])

\* the effective speed of section 4.5: stat x boost multiplier x 0.25 (paralysis) x 2 (tailwind)
EffNum(p) ==
  mon[active[p]].spe * StageNum(mon[active[p]].boosts["spe"])
    * (IF side[p].sideConditions.tailwind THEN 2 ELSE 1)

EffDen(p) ==
  StageDen(mon[active[p]].boosts["spe"])
    * (IF mon[active[p]].status = "paralysis" THEN 4 ELSE 1)

EffectiveFaster(p, q) == EffNum(p) * EffDen(q) > EffNum(q) * EffDen(p)

TrickRoom == field.sideConditions.trickRoom

\* C3: when the two actions have different priorities, the action with the strictly
\* higher priority is first in the execution order, whatever the speeds and speed stages.
C3_HigherPriorityFirst ==
  OrderSettled =>
    \A p \in Players :
      Priority(p) > Priority(Other(p)) => action_order = <<p, Other(p)>>

\* a slower combatant goes first on priority
C3_Witness ==
  /\ OrderSettled
  /\ Priority("p2") > Priority("p1")
  /\ BoostedFaster("p1", "p2")
  /\ action_order = <<"p2", "p1">>

\* C4: with equal priorities the side with the strictly greater speed stat x stage
\* multiplier is first; on equal values both orders are possible outcomes of the tie-break.
C4_SpeedThenTie ==
  /\ OrderSettled /\ Priority("p1") = Priority("p2") =>
       \A p \in Players : BoostedFaster(p, Other(p)) => action_order = <<p, Other(p)>>
  /\ (/\ pc = "order"
      /\ Priority("p1") = Priority("p2")
      /\ ~BoostedFaster("p1", "p2")
      /\ ~BoostedFaster("p2", "p1")) =>
       /\ ENABLED (OrderStep /\ action_order' = <<"p1", "p2">>)
       /\ ENABLED (OrderStep /\ action_order' = <<"p2", "p1">>)

\* a tie between different stats at different stages, broken in favour of p2
C4_Witness ==
  /\ OrderSettled
  /\ Priority("p1") = Priority("p2")
  /\ mon[active["p1"]].spe # mon[active["p2"]].spe
  /\ ~BoostedFaster("p1", "p2")
  /\ ~BoostedFaster("p2", "p1")
  /\ action_order = <<"p2", "p1">>

\* C5: under Trick Room with equal priorities the combatant with the lower effective
\* speed acts first; with different priorities the higher priority still acts first.
C5_TrickRoomInverts ==
  OrderSettled =>
    \A p \in Players :
      /\ Priority(p) > Priority(Other(p)) => action_order = <<p, Other(p)>>
      /\ (TrickRoom /\ Priority(p) = Priority(Other(p)) /\ EffectiveFaster(Other(p), p))
           => action_order = <<p, Other(p)>>

\* C6: with equal priority, equal speed stat and equal speed stage (and no Trick Room), a
\* paralysed active acts after a non-paralysed one whose side has the same Tailwind state,
\* and a Tailwind-side active acts before a non-Tailwind one of the same status.
C6_ParalysisTailwindSpeed ==
  (/\ OrderSettled
   /\ ~TrickRoom
   /\ Priority("p1") = Priority("p2")
   /\ mon[active["p1"]].spe = mon[active["p2"]].spe
   /\ mon[active["p1"]].boosts["spe"] = mon[active["p2"]].boosts["spe"]) =>
    \A p \in Players :
      LET q == Other(p)
      IN /\ (/\ mon[active[p]].status = "paralysis"
             /\ mon[active[q]].status = "none"
             /\ side[p].sideConditions.tailwind = side[q].sideConditions.tailwind)
              => action_order = <<q, p>>
         /\ (/\ side[p].sideConditions.tailwind
             /\ ~side[q].sideConditions.tailwind
             /\ mon[active[p]].status = mon[active[q]].status)
              => action_order = <<p, q>>

(***************************************************************************)
(* Battle loop and combatant invariants: C1, C7 - C10                      *)
(***************************************************************************)
AllIds == DOMAIN mon

Roster(p) == IF p = "p1" THEN team1 ELSE team2

\* every combatant of p's roster has fainted
SideDown(p) == \A i \in 1..Len(Roster(p)) : mon[Roster(p)[i]].hp <= 0

LogHas(result) == \E i \in 1..Len(turn_log) : turn_log[i].result = result

\* C1: after any sequence of turns every combatant, active or benched, has
\* 0 <= hp <= max_hp (the rosters start within these bounds).
C1_HpWithinBounds ==
  \A id \in AllIds : mon[id].hp >= 0 /\ mon[id].hp <= mon[id].max_hp

\* a heal move has just been capped at max_hp, against a side that has taken damage
C1_Witness ==
  /\ LogHas("healed")
  /\ \E p \in Players :
       /\ mon[active[p]].hp = mon[active[p]].max_hp
       /\ actions[p].move = "recover"
       /\ mon[active[Other(p)]].hp < mon[active[Other(p)]].max_hp

\* a status tick has just been floored at 0
C1_FlooredAtZero ==
  /\ LogHas("status_damage")
  /\ \E id \in AllIds : mon[id].hp = 0 /\ mon[id].status = "burn"

\* C7: when simulate_battle stops at the turn cap with both sides still holding a
\* non-fainted combatant, the winner is "tie" and the turn count is max_turns.
C7_CapIsTie ==
  (pc = "done" /\ ~SideDown("p1") /\ ~SideDown("p2")) =>
    winner = "tie" /\ turn = max_turns

\* C8: once a side has no non-fainted combatant no further turn is executed, and the
\* winner returned is the other side if it has one left, "tie" if neither has.
C8_NoTurnAfterSideDown ==
  /\ [][(SideDown("p1") \/ SideDown("p2")) => calls' = calls]_vars
  /\ [](pc = "done" =>
          /\ (SideDown("p1") /\ SideDown("p2") => winner = "tie")
          /\ \A p \in Players : SideDown(p) /\ ~SideDown(Other(p)) => winner = Other(p))

\* the loop broke before the cap with p2 out and p1 the winner
C8_Witness ==
  /\ pc = "done"
  /\ SideDown("p2")
  /\ ~SideDown("p1")
  /\ winner = "p1"
  /\ calls < max_turns

\* both sides out at once
C8_BothDown == pc = "done" /\ SideDown("p1") /\ SideDown("p2") /\ winner = "tie"

\* steps simulate_battle can still take: six per remaining turn, less the position
\* reached within the current one
Rank ==
  IF pc = "done" THEN 0
  ELSE 6 * (max_turns - turn)
       + (CASE pc = "loop" -> 1
            [] pc = "eot" -> 2
            [] pc = "exec" -> 5 - step
            [] pc = "order" -> 5)

\* C9: simulate_battle terminates for every max_turns >= 0 after at most max_turns
\* calls of simulate_turn, with a winner in {p1, p2, tie}: until it returns a step is
\* always possible, every step lowers a rank that is never negative, the calls never
\* exceed max_turns, and the winner returned is one of the three.
C9_Terminates ==
  /\ [](pc = "done" \/ ENABLED Next)
  /\ [](Rank >= 0)
  /\ [][Rank' < Rank]_vars
  /\ [](calls <= max_turns)
  /\ [](pc = "done" => winner \in {"p1", "p2", "tie"})

\* a battle that ran max_turns >= 2 turns and returned
C9_Witness == pc = "done" /\ calls = max_turns /\ max_turns >= 2 /\ winner \in {"p1", "p2", "tie"}

\* C10: every boost stage of every combatant stays within [-6, 6], however often
\* a secondary stat drop or an attack-lowering switch-in ability triggers.
C10_BoostsWithinRange ==
  \A id \in AllIds : \A st \in Stats :
    mon[id].boosts[st] >= 0 - 6 /\ mon[id].boosts[st] <= 6

\* a special-defence drop has just landed on a combatant at the floor
C10_Witness ==
  /\ LogHas("spdef_dropped")
  /\ \E p \in Players : mon[active[p]].boosts["spd"] = 0 - 6
                        /\ actions[Other(p)].move = "acidspray"

\* the switch-in ability has just triggered against a combatant at the floor
C10_IntimidateAtFloor ==
  /\ LogHas("ability_triggered")
  /\ \E p \in Players : mon[active[p]].boosts["atk"] = 0 - 6

(***************************************************************************)
(* Calculators and turn steps: C11 - C20                                   *)
(***************************************************************************)
\* a direct call of the given calculator has returned
Called(method) == pc = "return" /\ call.method = method

\* the golden call: physical move of power 100, level 100, Attack 130 and Defense 95
\* at stage 0, no STAB, neutral type, no item, no burn, no critical hit, roll 1.0
GoldenCall ==
  /\ Called("calculate_damage")
  /\ MoveDex[call.move].category = "Physical"
  /\ MoveDex[call.move].power = 100
  /\ mon[call.attacker].level = 100
  /\ mon[call.attacker].atk = 130
  /\ mon[call.attacker].boosts["atk"] = 0
  /\ mon[call.defender].def = 95
  /\ mon[call.defender].boosts["def"] = 0
  /\ ~InSeq(MoveDex[call.move].type, mon[call.attacker].types)
  /\ ret[1].effectiveness = <<1, 1>>
  /\ mon[call.attacker].item = ""
  /\ mon[call.attacker].status # "burn"
  /\ field.weather = "none" /\ field.terrain = "none"
  /\ ~ret[1].critical_hit
  /\ call.random_factor = 100

\* C13: the golden call of calculate_damage returns exactly
\* floor((2*100+10)/250 * 130 * 100 / 95 + 2) = 116.
C13_GoldenDamage == GoldenCall => ret[1].damage = 116

\* the golden call has returned 116
C13_Witness == GoldenCall /\ ret[1].damage = 116

\* C17: a paralysed combatant about to act is prevented exactly when the draw is
\* below 0.25 (one quarter of the draws) and acts for the other three quarters:
\* check_status_effects returns "can act" exactly for the draws of 0.25 and above.
C17_ParalysisQuarter ==
  (Called("check_status_effects") /\ mon[call.pokemon].status = "paralysis")
    => (ret[1] <=> call.draw >= 2500)

\* a tick of apply_status_damage is being taken on a combatant with the given statuses
Ticking(statuses) ==
  /\ call.method = "apply_status_damage"
  /\ mon[call.pokemon].status \in statuses
  /\ mon'[call.pokemon] # mon[call.pokemon] \/ ret' # ret \/ pc' # pc

\* C18: the k-th tick of a badly-poisoned combatant since the status was inflicted
\* (status_turns 0) computes floor(max_hp * k / 8), more than the tick before when
\* max_hp >= 8; every tick of burn or poison computes floor(max_hp / 8).
C18_ToxicRamp ==
  /\ [][Ticking({"badly_poisoned"}) =>
          /\ mon'[call.pokemon].status_turns = mon[call.pokemon].status_turns + 1
          /\ ret'[1] = (mon[call.pokemon].max_hp * mon'[call.pokemon].status_turns) \div 8
          /\ (pc = "return" /\ mon[call.pokemon].max_hp >= 8) => ret'[1] > ret[1]]_vars
  /\ [][Ticking({"burn", "poison"}) => ret'[1] = mon[call.pokemon].max_hp \div 8]_vars

C18_Witness ==
  /\ Called("apply_status_damage")
  /\ mon[call.pokemon].status = "badly_poisoned"
  /\ mon[call.pokemon].max_hp = 30
  /\ mon[call.pokemon].status_turns = 3
  /\ ret[1] = 11

\* C18, the smallest max_hp of the claim: 1, 2, 3, ... for max_hp 8
C18_RampAtEight ==
  /\ Called("apply_status_damage")
  /\ mon[call.pokemon].status = "badly_poisoned"
  /\ mon[call.pokemon].max_hp = 8
  /\ ret[1] = mon[call.pokemon].status_turns
  /\ ret[1] = MaxTicks

\* the roster object id as the caller built it
AsPassed(id) == Dex[mon[id].species]

\* C15: simulate_battle does not modify the roster objects the caller passed in:
\* when it returns, every object of team1 and team2 has the hp, status,
\* status_turns and boosts it was passed with, so a second battle on the same
\* rosters starts as the first did.
C15_RosterUntouched ==
  pc = "done" =>
    \A p \in Players : \A i \in 1..Len(Roster(p)) :
      LET id == Roster(p)[i]
      IN /\ mon[id].hp = AsPassed(id).hp
         /\ mon[id].status = AsPassed(id).status
         /\ mon[id].status_turns = AsPassed(id).status_turns
         /\ mon[id].boosts = AsPassed(id).boosts

\* the action is one of the combatant's own moves, or a switch to a bench member with hp > 0
Executable(p, action) ==
  \/ action.type = "move" /\ InSeq(action.move, mon[active[p]].moves)
  \/ /\ action.type = "switch"
     /\ action.pokemon \in 1..Len(bench[p])
     /\ mon[bench[p][action.pokemon]].hp > 0

\* C16: get_random_action returns Struggle only for an active combatant without a
\* usable move: for a combatant with at least one move the action drawn is one of
\* its moves or a switch to a bench member with hp > 0.
C16_StruggleOnlyWithoutMoves ==
  pc = "order" =>
    \A p \in Players :
      Len(mon[active[p]].moves) > 0 => Executable(p, actions[p])

\* the acting side's execute_move has just appended its move entry
MoveEntryLogged ==
  /\ pc = "exec"
  /\ actions[Acting].type = "move"
  /\ Len(turn_log') > Len(turn_log)
  /\ turn_log'[Len(turn_log) + 1].action = "move"

\* the draw d is below the effective accuracy of the move being executed
BelowAccuracy(d) ==
  DrawBelow(d, FMul(effective_accuracy(MoveDex[actions[Acting].move], mon[active[Acting]],
                                       mon[active[Other(Acting)]], field), <<1, 100>>))

\* C14: the accuracy_roll of a move entry is the draw that decided hit or miss: a
\* 'missed' entry has accuracy_roll >= effective accuracy / 100, and a 'hit' entry of
\* a move that went through the accuracy draw has accuracy_roll < effective accuracy / 100.
C14_LoggedRollDecided ==
  [][MoveEntryLogged =>
       LET entry == turn_log'[Len(turn_log) + 1]
       IN /\ entry.result = "missed" => ~BelowAccuracy(entry.accuracy_roll)
          /\ (entry.result = "hit" /\ MoveDex[actions[Acting].move].accuracy # 100)
               => BelowAccuracy(entry.accuracy_roll)]_vars

\* C20: a side whose active combatant has hp <= 0 when its execution step arrives
\* executes nothing: the step changes no combatant, neither side, nor the field, and
\* appends no entry (move, switch or action_prevented) to the turn log.
C20_FaintedExecutesNothing ==
  [][(pc = "exec" /\ mon[active[Acting]].hp <= 0) =>
       /\ mon' = mon
       /\ turn_log' = turn_log
       /\ active' = active
       /\ bench' = bench
       /\ side' = side
       /\ field' = field]_vars

\* the first action of the turn knocked out the other side's active combatant, whose
\* own step then passed without an entry
C20_Witness ==
  /\ pc = "eot"
  /\ mon[active[action_order[2]]].hp = 0
  /\ actions[action_order[2]].type = "move"
  /\ InSeq(actions[action_order[2]].move, mon[active[action_order[2]]].moves)
  /\ \E i \in 1..Len(turn_log) :
       /\ turn_log[i].player = action_order[1]
       /\ turn_log[i].result = "hit"
       /\ turn_log[i].damage > 0
  /\ \A i \in 1..Len(turn_log) : turn_log[i].player # action_order[2]

\* the move's effects would inflict a major status on the defender
Inflicting(move) ==
  \/ "status" \in DOMAIN move.effects
       /\ move.effects.status \in {"burn", "paralysis", "badly_poisoned"}
  \/ "secondary" \in DOMAIN move.effects /\ move.effects.secondary.effect = "burn"

Defender == active[Other(Acting)]

\* C11: a move effect (primary status or secondary effect) that would inflict burn,
\* paralysis or badly-poisoned on a defender whose status is not NONE leaves the
\* defender's status and status_turns as they were.
C11_StatusExclusive ==
  [][(/\ pc = "exec"
      /\ actions[Acting].type = "move"
      /\ actions[Acting].move \in DOMAIN MoveDex
      /\ Inflicting(MoveDex[actions[Acting].move])
      /\ mon[Defender].status # "none")
       => /\ mon'[Defender].status = mon[Defender].status
          /\ mon'[Defender].status_turns = mon[Defender].status_turns]_vars

\* the move of player p went through (it hit) and is move_id
Landed(p, move_id) ==
  /\ actions[p].move = move_id
  /\ \E i \in 1..Len(turn_log) :
       turn_log[i].player = p /\ turn_log[i].result \in {"hit", "status_move"}

\* Toxic has landed on a combatant badly poisoned two ticks ago: the counter is not reset
C11_Witness ==
  /\ pc = "eot"
  /\ Landed("p1", "toxic")
  /\ mon[active["p2"]].status = "badly_poisoned"
  /\ mon[active["p2"]].status_turns = 2

\* C11, the secondary effect: Flamethrower has hit a paralysed combatant that survived
C11_SecondaryOnParalysed ==
  /\ pc = "eot"
  /\ Landed("p1", "flamethrower")
  /\ mon[active["p2"]].status = "paralysis"
  /\ mon[active["p2"]].hp > 0

\* the acting side's switch is being carried out
SwitchingIn == pc = "exec" /\ active'[Acting] # active[Acting]

\* C12: hazards are applied at switch-in: a Fire-type combatant without an item that
\* switches in with stealth rock and two layers of spikes set loses 37.5% of its
\* max HP at that switch.
C12_HazardsAtSwitchIn ==
  [][(/\ SwitchingIn
      /\ field.hazards.stealthRock /\ field.hazards.spikes = 2
      /\ side[Acting].hazards.stealthRock /\ side[Acting].hazards.spikes = 2
      /\ InSeq("Fire", mon[active'[Acting]].types)
      /\ mon[active'[Acting]].item = "")
       => 8 * (mon[active'[Acting]].hp - mon'[active'[Acting]].hp)
            = 3 * mon[active'[Acting]].max_hp]_vars

\* place of an end-of-turn entry in the fixed order; 0 for any other entry
Stage(entry) ==
  IF entry.action = "status_damage" THEN 1
  ELSE IF entry.action = "weather" THEN 2
  ELSE IF entry.action = "terrain" THEN 3
  ELSE IF entry.action = "item" THEN 4
  ELSE 0

\* the entries apply_end_of_turn_effects is appending
EotLog == SubSeq(turn_log', Len(turn_log) + 1, Len(turn_log'))

\* hp of p's active combatant after the status stage
AfterStatus(p) ==
  IF mon[active[p]].hp > 0 THEN apply_status_damage(mon[active[p]]).pokemon.hp
  ELSE mon[active[p]].hp

\* the appended entries of an action that name p's active combatant as their target
EntriesOn(p, action) ==
  {i \in 1..Len(EotLog) :
     EotLog[i].action = action /\ EotLog[i].details.target = mon[active[p]].species}

\* p's active combatant is brought to 0 by its status tick
DownAtStatus(p) == mon[active[p]].hp > 0 /\ AfterStatus(p) = 0

\* p's active combatant survives its status tick and is brought to 0 by the weather
DownAtWeather(p) ==
  /\ AfterStatus(p) > 0
  /\ \E i \in EntriesOn(p, "weather") : EotLog[i].details.damage >= AfterStatus(p)

\* no item entry is appended for p: item entries name no target, so this is said
\* where the other side's active combatant holds no item
NoItemEntryFor(p) ==
  mon[active[Other(p)]].item = "" => \A i \in 1..Len(EotLog) : EotLog[i].action # "item"

\* C19: end-of-turn effects come in the order status damage, weather damage, terrain
\* heal, item effects, and a combatant brought to hp 0 by one of them gets no later
\* effect of the same turn: it ends the turn at 0 with no weather damage entry (when
\* downed by status), no terrain heal and no item heal.
C19_EndOfTurnOrder ==
  [][pc = "eot" =>
       /\ \A i \in 1..Len(EotLog) : Stage(EotLog[i]) > 0
       /\ \A i \in 1..Len(EotLog), j \in 1..Len(EotLog) :
            i < j => Stage(EotLog[i]) <= Stage(EotLog[j])
       /\ \A p \in Players :
            DownAtStatus(p) =>
              /\ mon'[active[p]].hp = 0
              /\ EntriesOn(p, "weather") = {}
              /\ EntriesOn(p, "terrain") = {}
              /\ NoItemEntryFor(p)
       /\ \A p \in Players :
            DownAtWeather(p) =>
              /\ mon'[active[p]].hp = 0
              /\ EntriesOn(p, "terrain") = {}
              /\ NoItemEntryFor(p)]_vars

\* the turn has returned with entries of the given actions in its log, in this order
LoggedInOrder(acts) ==
  \E f \in [1..Len(acts) -> 1..Len(turn_log)] :
    /\ \A k \in 1..Len(acts) : turn_log[f[k]].action = acts[k]
    /\ \A k \in 1..(Len(acts) - 1) : f[k] < f[k + 1]

\* p2's burned Leftovers holder fell to its burn tick in sandstorm and grassy terrain:
\* the weather fell on p1's combatant only, and nothing healed
C19_Witness ==
  /\ pc = "loop"
  /\ field.weather = "sandstorm" /\ field.terrain = "grassy"
  /\ mon[active["p2"]].status = "burn"
  /\ mon[active["p2"]].item = "Leftovers"
  /\ mon[active["p2"]].hp = 0
  /\ LoggedInOrder(<<"status_damage", "weather">>)
  /\ \A i \in 1..Len(turn_log) :
       /\ turn_log[i].action = "weather" => turn_log[i].details.target = mon[active["p1"]].species
       /\ turn_log[i].action # "item"

\* C19, the weather stage: the burn tick left hp, the sandstorm took the rest, and
\* neither terrain nor Leftovers healed the holder
C19_DownAtWeather ==
  /\ pc = "loop"
  /\ mon[active["p2"]].status = "burn"
  /\ mon[active["p2"]].item = "Leftovers"
  /\ mon[active["p2"]].hp = 0
  /\ \E i \in 1..Len(turn_log) :
       turn_log[i].action = "weather" /\ turn_log[i].details.target = mon[active["p2"]].species
  /\ \A i \in 1..Len(turn_log) : turn_log[i].action # "item"

\* C19, the order: all four stages left an entry
C19_AllFourStages ==
  pc = "loop" /\ LoggedInOrder(<<"status_damage", "weather", "terrain", "item">>)

(***************************************************************************)
(* Battle result, accuracy, switching and side state: C21 - C30            *)
(***************************************************************************)
\* C22: the turn count simulate_battle returns is the number of simulate_turn calls
\* it made, at the turn cap and when a side has no combatant left.
C22_TurnsAreCalls == pc = "done" => turn = calls

\* clamp(base accuracy x multiplier(accuracy stage) x multiplier(-evasion stage), 1, 100)
ClampedAccuracy(move, attacker, defender) ==
  LET a == FMul(FMul(<<move.accuracy, 1>>, get_stat_multiplier(attacker.boosts["accuracy"])),
                get_stat_multiplier(0 - defender.boosts["evasion"]))
  IN IF FLess(a, <<1, 1>>) THEN <<1, 1>>
     ELSE IF FLess(<<100, 1>>, a) THEN <<100, 1>> ELSE a

\* check_accuracy has returned for a call without weather, terrain or paralysis
PlainAccuracyCall ==
  /\ Called("check_accuracy")
  /\ field.weather = "none" /\ field.terrain = "none"
  /\ mon[call.attacker].status = "none"

\* C23: for every move, base accuracy 100 included, check_accuracy reports a hit
\* exactly when the draw is below the clamped product of base accuracy and the two
\* stage multipliers, over 100; a base-accuracy-100 move can miss an evasive defender.
C23_StagedAccuracy ==
  PlainAccuracyCall =>
    (ret[1] <=> DrawBelow(call.draw,
                          FMul(ClampedAccuracy(MoveDex[call.move], mon[call.attacker],
                                               mon[call.defender]), <<1, 100>>)))

\* C24: in rain Thunder and Hurricane always hit: check_accuracy reports a hit for
\* every draw, whatever the stages, the terrain and the attacker's paralysis.
C24_RainForcesHit ==
  (/\ Called("check_accuracy")
   /\ field.weather = "rain"
   /\ MoveDex[call.move].name \in {"Thunder", "Hurricane"})
    => ret[1]

\* the acting side is executing a damaging move that has no effect on the defender's types
ImmuneTarget ==
  /\ pc = "exec"
  /\ actions[Acting].type = "move"
  /\ actions[Acting].move \in DOMAIN MoveDex
  /\ MoveDex[actions[Acting].move].category # "Status"
  /\ calculate_type_effectiveness(MoveDex[actions[Acting].move].type,
                                  mon[Defender].types) = <<0, 1>>

\* C25: a damaging move whose type-effectiveness multiplier against the defender is 0
\* leaves the defender's hp unchanged when executed.
C25_ImmuneTakesNothing ==
  [][ImmuneTarget => mon'[Defender].hp = mon[Defender].hp]_vars

\* C26: when a combatant with Intimidate switches in, the attack stage of the other
\* side's active combatant goes down by one, floored at -6, and the boosts of the
\* switching side's own combatants stay as they were, mirror matches included.
C26_IntimidateHitsOpponent ==
  [][(SwitchingIn /\ mon[active'[Acting]].ability = "Intimidate") =>
       /\ mon'[Defender].boosts["atk"] = Max(0 - 6, mon[Defender].boosts["atk"] - 1)
       /\ \A i \in 1..Len(Roster(Acting)) :
            mon'[Roster(Acting)[i]].boosts = mon[Roster(Acting)[i]].boosts]_vars

\* the hazards entries of the battle state: the field's and each side's
HazardEntries == {field.hazards} \cup {side[p].hazards : p \in Players}

\* C27: after any number of hazard-placing moves the spikes layer count is in 0..3
\* and the toxic spikes layer count in 0..2.
C27_HazardLayersInRange ==
  \A h \in HazardEntries : h.spikes \in 0..3 /\ h.toxicSpikes \in 0..2

\* the key simulate_battle initialises for the screen a move effect names
ScreenKey(screen) == IF screen = "reflect" THEN "reflect" ELSE "lightScreen"

\* the acting side's screen-raising move is going through
RaisingScreen ==
  /\ MoveEntryLogged
  /\ actions[Acting].move \in DOMAIN MoveDex
  /\ "screen" \in DOMAIN MoveDex[actions[Acting].move].effects

\* C28: Reflect or Light Screen used by either player sets that screen's flag in the
\* user's own side state, under the key the side state was initialised with, and
\* leaves the other side's screen flags as they were.
C28_ScreenOnOwnSide ==
  [][RaisingScreen =>
       /\ DOMAIN side'[Acting].screens = DOMAIN SideInit.screens
       /\ side'[Acting].screens[ScreenKey(MoveDex[actions[Acting].move].effects.screen)]
       /\ side'[Other(Acting)].screens = side[Other(Acting)].screens]_vars

\* the combatants of p's side, active first
OnSide(p) == <<active[p]>> \o bench[p]

\* C29, the invariant: each side's active combatant and bench are exactly the
\* combatants of its original roster, each once
C29_RosterPermuted ==
  \A p \in Players :
    /\ Len(OnSide(p)) = Len(Roster(p))
    /\ {OnSide(p)[i] : i \in 1..Len(OnSide(p))} = {Roster(p)[i] : i \in 1..Len(Roster(p))}
    /\ \A i \in 1..Len(OnSide(p)), j \in 1..Len(OnSide(p)) :
         OnSide(p)[i] = OnSide(p)[j] => i = j

\* the acting side carries out a switch whose index is not below the bench
\* length: its combatant stands and its status has not prevented the action
SwitchOutOfRange ==
  /\ pc = "exec"
  /\ mon[active[Acting]].hp > 0
  /\ ~ExecPrevented
  /\ actions[Acting].type = "switch"
  /\ actions[Acting].pokemon > Len(bench[Acting])

\* C29: switching only permutes a side's own combatants (none lost, duplicated or
\* moved to the other side, bench length constant), and a switch action whose index
\* is not below the bench length changes no state and logs nothing.
C29_SwitchPermutes ==
  /\ [](C29_RosterPermuted)
  /\ [][SwitchOutOfRange =>
          /\ mon' = mon /\ active' = active /\ bench' = bench
          /\ side' = side /\ field' = field /\ turn_log' = turn_log]_vars

\* p1's switch has been carried out: the bench member is active and the former
\* active combatant has its place on the bench
C29_Witness ==
  /\ active["p1"] = team1[2]
  /\ bench["p1"] = <<team1[1]>>
  /\ LogHas("switched")

\* C29, the index beyond the bench: p2, able to act and not asleep or paralysed, chose
\* a switch with an empty bench and its step has passed without an entry
C29_NothingSwitched ==
  /\ pc = "eot"
  /\ actions["p2"].type = "switch"
  /\ bench["p2"] = << >>
  /\ mon[active["p2"]].hp > 0
  /\ mon[active["p2"]].status = "none"
  /\ \A i \in 1..Len(turn_log) : turn_log[i].player # "p2"

\* C30: fainting is permanent: a combatant whose hp is 0 never has hp > 0 again; no
\* heal move, terrain heal, item heal or ability raises it.
C30_FaintedStaysDown ==
  [][\A id \in AllIds : mon[id].hp <= 0 => mon'[id].hp <= 0]_vars

\* the Leftovers holder, standing on grassy terrain, went down to p1's hit and the
\* end of the turn has passed: it is still at 0, and the log holds no entry by p2,
\* no status, weather or terrain entry on the holder and no item entry
C30_Witness ==
  /\ pc = "loop"
  /\ field.terrain = "grassy"
  /\ mon[active["p2"]].item = "Leftovers"
  /\ mon[active["p2"]].hp = 0
  /\ \E i \in 1..Len(turn_log) : turn_log[i].result = "hit" /\ turn_log[i].damage > 0
  /\ \A i \in 1..Len(turn_log) :
       /\ turn_log[i].player # "p2"
       /\ turn_log[i].details.target # mon[active["p2"]].species
       /\ turn_log[i].result # "item_triggered"

\* the acting side's active combatant has fainted and the side has chosen a switch
\* to a bench member with hp > 0
ReplacementChosen ==
  /\ pc = "exec"
  /\ mon[active[Acting]].hp <= 0
  /\ actions[Acting].type = "switch"
  /\ actions[Acting].pokemon \in 1..Len(bench[Acting])
  /\ mon[bench[Acting][actions[Acting].pokemon]].hp > 0

\* the step has logged a hit by the acting side
HitLogged ==
  /\ MoveEntryLogged
  /\ turn_log'[Len(turn_log) + 1].result = "hit"

\* C21: a side whose active combatant has fainted with a bench member at hp > 0 has
\* its chosen switch carried out, the bench member becoming active, and no move is
\* executed against a defender whose hp is already 0.
C21_FaintedReplaced ==
  [][/\ ReplacementChosen => active'[Acting] = bench[Acting][actions[Acting].pokemon]
     /\ HitLogged => mon[Defender].hp > 0]_vars

\* C21, what the code does instead: a side's fainted active combatant is never
\* replaced, so a side of two or more combatants is never down to zero
C21_FaintedActiveStays ==
  /\ [][\A p \in Players : mon[active[p]].hp <= 0 => active'[p] = active[p]]_vars
  /\ [](\A p \in Players : Len(Roster(p)) >= 2 => ~SideDown(p))

====
